---- MODULE Spec2Model ----
(***************************************************************************)
(* Model of the ct trading engine (pdmorrow/ct):                           *)
(*   - account_manager.rs: order_thread, event_thread, AccountManager      *)
(*   - process_md.rs: trade_confirmation_via_previous_candles,             *)
(*     trading_decision, process_close_data, process_market_data_thread    *)
(*                                                                         *)
(* Numbers.  f64 values are modelled as exact integers:                    *)
(*   prices and quote-asset amounts in hundredths (5000 is 50.00),         *)
(*   base-asset quantities in tenths (100 is 10.0).                        *)
(* Option<T> is a sequence of length <= 1: None is <<>>, Some(x) is <<x>>. *)
(***************************************************************************)
EXTENDS Integers, Sequences, FiniteSets, TLC

\* ------------------------------------------------------------------ bounds
\* Number of trading pairs that can be configured (run_strategy spawns one
\* process_market_data_thread, hence one AccountManager, per pair).
NumPairs == 3
\* Commands that may sit in one order channel (mpsc::channel is unbounded).
MaxQueue == 1
\* Largest value of the fill counter explored.
MaxFills == 2
\* Largest free balance reached by adding balanceUpdate deltas.
MaxBal == 2
\* Largest ConfirmationCandles value (K) configured.
MaxK == 3
\* Largest moving-average window configured.
MaxWindow == 3
MaxMacdFed == 37
\* Closed candles given to one tracker.
MaxFed == 4
\* Largest sum of fill commissions explored, in USDT hundredths.
MaxCommission == 60
\* Largest session commission total cuml_commission explored.
MaxCuml == 120

\* ------------------------------------------------------- program constants
\* while cur_try < 5
RECONNECT_TRIES == 5
max_tries == 5
\* while *waiting && retry < 4
CANCEL_WAIT_RETRIES == 4

None == <<>>
Some(x) == <<x>>
IsSome(o) == o # <<>>
Unwrap(o) == o[1]
UnwrapOr(o, d) == IF o = <<>> THEN d ELSE o[1]

Managers == 1..NumPairs

\* TradingPair::new: symbol, sell (base) and buy (quote) currency of a pair,
\* and its leveraged-token type (the base currency ends with UP or DOWN).
\* Pairs 1 and 2 are X/USDT and Y/USDT, pair 3 is the leveraged token ZUP/USDT.
sell_currency(p) ==
    IF p = 1 THEN "X" ELSE IF p = 2 THEN "Y" ELSE IF p = 3 THEN "ZUP" ELSE "W"
buy_currency(p) == "USDT"
PairSymbol(p) ==
    IF p = 1 THEN "XUSDT" ELSE IF p = 2 THEN "YUSDT"
    ELSE IF p = 3 THEN "ZUPUSDT" ELSE "WUSDT"
get_bvlt_type(p) == IF p = 3 THEN Some("BvltUp") ELSE None
Symbols == {PairSymbol(p) : p \in Managers}
Assets == {"USDT"} \cup {sell_currency(p) : p \in Managers}
\* TradingPair filters as resolved from the exchange for the modelled pairs:
\* quantity decimals 0, minimum notional 10.00.
get_qty_dps(p) == 0
get_min_notional(p) == 1000

Pow10(n) == IF n <= 0 THEN 1 ELSE IF n = 1 THEN 10 ELSE IF n = 2 THEN 100 ELSE 1000

\* math::round::floor(x, dps) on a value held with `scale` decimals.
Floor(x, dps, scale) ==
    LET unit == Pow10(scale - dps) IN (x \div unit) * unit

VARIABLES
    pairs,          \* configured pairs = AccountManager instances created
    chan,           \* [m] mpsc channel of OrderMsg (tx_channel / rx_channel)
    ot,             \* [m] order_thread: pc and locals (msg, retry, free, qty)
    waiting,        \* [m] the bool inside event_cv / order_completed_cv
    stop_percent,   \* [m] Arc<Mutex<Option<f64>>>
    ad,             \* [m] balance mirror: asset -> Option Balance
    positions,      \* [m] position mirror: symbol -> Option Position
    et,             \* [m] event_thread: pc and locals
    mt,             \* [m] process_market_data_thread: MarketDataTracker and
                    \* prev_closing_price
    log             \* [m] what the threads sent / logged (observations)

vars == <<pairs, chan, ot, waiting, stop_percent, ad, positions, et, mt, log>>

\* ---------------------------------------------------------------- messages
\* OrderMsg as built by AccountManager::spot_trade.
\* OrderQuantity: the variant and, for Exact (tenths of the base asset) and
\* PercentageAmount, its value.
OrderQuantity(kind, q) == [kind |-> kind, q |-> q]
Percentage100 == OrderQuantity("Percentage100", 0)

\* The OrderMsg built by spot_trade / submit_order.
OrderMsgQ(p, position, quantity, limit_price, stp) ==
    [tp |-> p,
     order_type |-> IF limit_price = None THEN "Market" ELSE "Limit",
     position |-> position,
     quantity |-> quantity,
     limit_price |-> limit_price,
     stop_percent |-> stp,
     quit |-> FALSE]

\* process_close_data always asks for OrderQuantity::Percentage100.
OrderMsg(p, position, limit_price, stp) ==
    OrderMsgQ(p, position, Percentage100, limit_price, stp)

NoMsg == [tp |-> 0]

\* ------------------------------------------------------------ order_thread
OtIdle == [pc |-> "recv", msg |-> NoMsg, retry |-> 0, free |-> 0, qty |-> 0, price |-> 0]

\* The MutexGuard `waiting` is alive from lock.lock() (line 145) to the end of
\* the if block (line 172), except inside cvar.wait_timeout.
CvLockKeptInWait(m) == ot[m].pc \in {"cancel", "wait", "blocked"}
CvLockHeldByOrder(m) == ot[m].pc \in {"cancel", "wait"}
\* stop_pct guard: from line 247 to the end of the loop body.
\* ad.lock().unwrap() and stop_percent.lock().unwrap() panic on a mutex
\* poisoned by a panic of the event thread inside the snapshot loop.
Poisoned(m) == et[m].pc = "panicked_snap"
StopLockHeldByOrder(m) == ot[m].pc = "place"

\* AccountManager::submit_order, called by spot_trade.
submit_order(m, om) ==
    /\ m \in pairs
    /\ Len(chan[m]) < MaxQueue
    /\ chan' = [chan EXCEPT ![m] = Append(@, om)]

\* rx_channel.recv()
order_thread_recv(m) ==
    /\ m \in pairs
    /\ ot[m].pc = "recv"
    /\ chan[m] # <<>>
    /\ ot' = [ot EXCEPT ![m] = [OtIdle EXCEPT !.pc = "open_orders", !.msg = Head(chan[m])]]
    /\ chan' = [chan EXCEPT ![m] = Tail(@)]
    /\ log' = [log EXCEPT ![m].gave_up = FALSE, ![m].placed = <<>>,
                          ![m].cancel_own = FALSE]
    /\ UNCHANGED <<mt, pairs, waiting, stop_percent, ad, positions, et>>

\* bex.get_open_orders(): r is "err", "none" (empty array) or "some".
order_thread_get_open_orders(m, r) ==
    /\ m \in pairs
    /\ ot[m].pc = "open_orders"
    /\ IF r = "some"
       THEN /\ waiting' = [waiting EXCEPT ![m] = TRUE]
            /\ ot' = [ot EXCEPT ![m].pc = "cancel"]
       ELSE /\ ot' = [ot EXCEPT ![m].pc = "balance"]
            /\ UNCHANGED waiting
    /\ UNCHANGED <<mt, pairs, chan, stop_percent, ad, positions, et, log>>

\* bex.cancel_all_orders(): Ok enters the wait loop, Err leaves the block.
order_thread_cancel_all_orders(m, ok) ==
    /\ m \in pairs
    /\ ot[m].pc = "cancel"
    /\ ot' = [ot EXCEPT ![m].pc = IF ok THEN "wait" ELSE "balance", ![m].retry = 0]
    /\ UNCHANGED <<mt, pairs, chan, waiting, stop_percent, ad, positions, et, log>>

\* while *waiting && retry < 4
WaitCondNoCap(w, retry) == w
WaitCond(w, retry) == w /\ retry < CANCEL_WAIT_RETRIES

\* Loop head, and what follows the loop: if *waiting { *waiting = false; ... }
order_thread_wait_loop(m) ==
    /\ m \in pairs
    /\ ot[m].pc = "wait"
    /\ IF WaitCond(waiting[m], ot[m].retry)
       THEN /\ ot' = [ot EXCEPT ![m].pc = "blocked"]
            /\ UNCHANGED <<waiting, log>>
       ELSE /\ ot' = [ot EXCEPT ![m].pc = "balance"]
            /\ waiting' = [waiting EXCEPT ![m] = FALSE]
            /\ log' = [log EXCEPT ![m].gave_up = waiting[m]]
    /\ UNCHANGED <<mt, pairs, chan, stop_percent, ad, positions, et>>

\* cvar.wait_timeout(waiting, 5s) returns (notified, timed out or spurious)
\* and the guard is re-acquired; retry += 1.
order_thread_wait_timeout(m) ==
    /\ m \in pairs
    /\ ot[m].pc = "blocked"
    /\ ot' = [ot EXCEPT ![m].pc = "wait", ![m].retry = @ + 1]
    /\ UNCHANGED <<mt, pairs, chan, waiting, stop_percent, ad, positions, et, log>>

\* What funds do we have available for this trade.
TradeAsset(msg) ==
    IF msg.position = "Long" THEN buy_currency(msg.tp) ELSE sell_currency(msg.tp)

order_thread_balance(m) ==
    /\ m \in pairs
    /\ ot[m].pc = "balance"
    /\ LET b == ad[m][TradeAsset(ot[m].msg)] IN
       IF Poisoned(m)
       THEN ot' = [ot EXCEPT ![m].pc = "panicked"]
       ELSE IF IsSome(b)
       THEN ot' = [ot EXCEPT ![m].pc = "price", ![m].free = Unwrap(b).free]
       ELSE ot' = [ot EXCEPT ![m] = OtIdle]
    /\ UNCHANGED <<mt, pairs, chan, waiting, stop_percent, ad, positions, et, log>>

\* The share of max_qty a percentage-based OrderQuantity asks for (lines
\* 220-227), as <<numerator, denominator>>.
QuantityShareTenfold(quantity) ==
    IF quantity.kind = "PercentageAmount" THEN <<quantity.q, 10>>
    ELSE <<10, 1>>
QuantityShare(quantity) ==
    IF quantity.kind = "PercentageAmount" THEN <<quantity.q, 100>>
    ELSE IF quantity.kind = "Percentage75" THEN <<3, 4>>
    ELSE IF quantity.kind = "Percentage50" THEN <<1, 2>>
    ELSE IF quantity.kind = "Percentage25" THEN <<1, 4>>
    ELSE <<1, 1>>

\* assert!(q <= 100) (line 221) fails: only evaluated for a Long command.
QuantityAssertFails(msg) ==
    /\ msg.position = "Long"
    /\ msg.quantity.kind = "PercentageAmount"
    /\ msg.quantity.q > 100

\* max_qty and requested_qty (lines 208-235), in tenths of the base asset:
\* free / current_price times the share for a Long command (free and price in
\* hundredths of the quote asset), free for a Short one.
RequestedQty(msg, free, current_price) ==
    IF msg.position = "Long"
    THEN IF msg.quantity.kind = "Exact"
         THEN Floor(msg.quantity.q, get_qty_dps(msg.tp), 1)
         ELSE LET sh == QuantityShare(msg.quantity) IN
              Floor((free * 10 * sh[1]) \div (current_price * sh[2]),
                    get_qty_dps(msg.tp), 1)
    ELSE Floor(free, get_qty_dps(msg.tp), 1)

\* cost < min_notional, with cost = current_price * requested_qty
BelowMinNotional(msg, current_price, qty) ==
    current_price * qty < get_min_notional(msg.tp) * 10

\* Price step: limit price or bex.get_price() (r = None is Err), sizing, the
\* min-notional check, then stop_percent.lock() and the recording of the
\* stop percent.
order_thread_price(m, r) ==
    /\ m \in pairs
    /\ ot[m].pc = "price"
    /\ LET msg == ot[m].msg
           current_price == IF msg.order_type = "Limit" THEN msg.limit_price ELSE r
       IN
       IF current_price = None
       THEN /\ ot' = [ot EXCEPT ![m] = OtIdle]
            /\ UNCHANGED stop_percent
       ELSE IF QuantityAssertFails(msg)
       THEN /\ ot' = [ot EXCEPT ![m].pc = "panicked"]
            /\ UNCHANGED stop_percent
       ELSE LET qty == RequestedQty(msg, ot[m].free, Unwrap(current_price)) IN
            IF BelowMinNotional(msg, Unwrap(current_price), qty)
            THEN /\ ot' = [ot EXCEPT ![m] = OtIdle]
                 /\ UNCHANGED stop_percent
            ELSE IF Poisoned(m)
            THEN /\ ot' = [ot EXCEPT ![m].pc = "panicked"]
                 /\ UNCHANGED stop_percent
            ELSE /\ ot' = [ot EXCEPT ![m].pc = "place", ![m].qty = qty,
                                     ![m].price = Unwrap(current_price)]
                 /\ stop_percent' = [stop_percent EXCEPT ![m] =
                        IF IsSome(msg.stop_percent) THEN msg.stop_percent ELSE @]
    /\ UNCHANGED <<mt, pairs, chan, waiting, ad, positions, et, log>>

\* Both arms of `match order::place_order_quantity(..)` (lines 252-274) only
\* log; the loop body ends and the thread is back at rx_channel.recv().
AfterPlaceRetry(o, ok) == IF ok THEN OtIdle ELSE o
AfterPlace(o, ok) == OtIdle

\* order::place_order_quantity returns (Ok or Err); end of the loop body.
order_thread_place(m, ok) ==
    /\ m \in pairs
    /\ ot[m].pc = "place"
    /\ ot' = [ot EXCEPT ![m] = AfterPlace(@, ok)]
    /\ log' = [log EXCEPT ![m].placed = Append(@,
                  [symbol |-> PairSymbol(ot[m].msg.tp),
                   side |-> IF ot[m].msg.position = "Long" THEN "BUY" ELSE "SELL",
                   qty |-> ot[m].qty, price |-> ot[m].price, ok |-> ok])]
    /\ UNCHANGED <<mt, pairs, chan, waiting, stop_percent, ad, positions, et>>

\* ------------------------------------------------------------ event_thread
\* Locals of event_thread as initialised at lines 386-398.  B and i are the
\* balance array of the outboundAccountPosition event being applied and the
\* index of the next element of the for loop.
EtInit ==
    [pc |-> "recv", B |-> <<>>, i |-> 1,
     cancelled_order |-> FALSE,
     trade_buy_price |-> None,
     ave_trade_buy_price |-> None,
     total_buy_quantity |-> None,
     price_dps |-> None,
     fills |-> 0,
     buy_is_filled |-> FALSE,
     buy_symbol |-> "NOSYMBOL",
     trade_commission_usdt |-> None,
     cuml_commission |-> 0,
     running |-> TRUE,
     cur_try |-> 0,                       \* of the reconnect loop
     lk |-> 1,                            \* listen key: the n-th key created
     conn_lk |-> 1,                       \* listen key of conn
     conn |-> TRUE,                       \* the user-data stream is connected
     ready_barrier |-> {"new", "event"}]  \* threads that called
                                          \* ready_barrier.wait()

\* utils::decimal_places of a price string: trailing zeros are trimmed, so a
\* price in hundredths has 0, 1 or 2 decimals.
decimal_places(price) ==
    IF price % 100 = 0 THEN 0 ELSE IF price % 10 = 0 THEN 1 ELSE 2

\* for balance in remote_ad.balances: only non-zero balances are inserted.
SeedBalances(remote_ad) ==
    [a \in Assets |->
        IF remote_ad[a].free # 0 \/ remote_ad[a].locked # 0
        THEN Some(remote_ad[a]) ELSE None]

\* Reference fold of the balance events, kept beside the mirror to compare
\* the two: a delta adds to free of a known asset (a delta for an unknown
\* asset is dropped), a snapshot entry replaces free and locked.
FoldDelta(f, asset, delta) ==
    IF f[asset] = None THEN f
    ELSE [f EXCEPT ![asset] = Some([free |-> f[asset][1].free + delta,
                                    locked |-> f[asset][1].locked])]
RECURSIVE FoldSnapshot(_, _)
FoldSnapshot(f, B) ==
    IF B = <<>> THEN f
    ELSE FoldSnapshot([f EXCEPT ![Head(B).a] = Some([free |-> Head(B).f, locked |-> Head(B).l])],
                      Tail(B))

\* "balanceUpdate": b.free += delta for a known asset, else logged and dropped.
DeltaAlsoLocked(bal, asset, delta) ==
    IF IsSome(bal[asset])
    THEN [bal EXCEPT ![asset] = Some([free |-> Unwrap(@).free + delta,
                                      locked |-> Unwrap(@).locked + delta])]
    ELSE bal
\* The else branch (lines 430-432): error!("balanceUpdate for unknown asset").
UnknownAssetInserted(bal, asset, delta) ==
    [bal EXCEPT ![asset] = Some([free |-> delta, locked |-> 0])]
UnknownAsset(bal, asset, delta) == bal

ApplyDelta(bal, asset, delta) ==
    IF IsSome(bal[asset])
    THEN [bal EXCEPT ![asset] = Some([Unwrap(@) EXCEPT !.free = @ + delta])]
    ELSE UnknownAsset(bal, asset, delta)

event_thread_balanceUpdate(m, asset, delta) ==
    /\ m \in pairs
    /\ et[m].pc = "recv"
    /\ IsSome(ad[m][asset]) =>
          /\ Unwrap(ad[m][asset]).free + delta >= 0
          /\ Unwrap(ad[m][asset]).free + delta <= MaxBal
    /\ ad' = [ad EXCEPT ![m] = ApplyDelta(@, asset, delta)]
    /\ log' = [log EXCEPT ![m].fold = FoldDelta(@, asset, delta),
                          ![m].dropped = @ \/ ~IsSome(ad[m][asset])]
    /\ UNCHANGED <<mt, pairs, chan, ot, waiting, stop_percent, positions, et>>

\* "outboundAccountPosition" received: the for loop over payload["B"] starts.
event_thread_outboundAccountPosition(m, B) ==
    /\ m \in pairs
    /\ et[m].pc = "recv"
    /\ et' = [et EXCEPT ![m].pc = "snap", ![m].B = B, ![m].i = 1]
    /\ UNCHANGED <<mt, pairs, chan, ot, waiting, stop_percent, ad, positions, log>>

\* ad_w.insert(asset, Balance {asset, free, locked})
InsertKeepLocked(bal, b) ==
    [bal EXCEPT ![b.a] = Some([free |-> b.f,
                               locked |-> IF IsSome(@) THEN Unwrap(@).locked ELSE b.l])]
InsertBalance(bal, b) ==
    [bal EXCEPT ![b.a] = Some([free |-> b.f, locked |-> b.l])]

\* submit_stop_order: the stop trigger price (and limit price, the same
\* value) sent with order::place_stop_limit.
StopTriggerPrice(stp, price_paid, price_dps) ==
    LET unit == Pow10(2 - price_dps) IN
    ((price_paid * (100 - stp)) \div (100 * unit)) * unit

submit_stop_order(stp, price_paid, price_dps, qty, symbol) ==
    [symbol |-> symbol, side |-> "SELL", type |-> "STOP_LOSS_LIMIT",
     quantity |-> qty,
     stopPrice |-> StopTriggerPrice(stp, price_paid, price_dps),
     price |-> StopTriggerPrice(stp, price_paid, price_dps)]

\* ave_trade_buy_price.unwrap() (line 470) on None: a CANCELED report of an
\* order other than a stop order came between the BUY FILLED report and the
\* snapshot.  The panic unwinds with the ad and stop_percent guards alive and
\* poisons both mutexes.
StopOrderPanics(e, stp) ==
    e.buy_is_filled /\ IsSome(stp) /\ ~IsSome(e.ave_trade_buy_price)

\* Err branch of submit_stop_order (lines 300-302): the orders sent after the
\* exchange refused the stop order.  The branch logs the error only.
submit_stop_order_err(symbol) == <<>>

\* One iteration of `for b in updated_balances` (lines 437-477).  The ad guard
\* lives for one iteration; the stop_percent guard only inside the
\* buy_is_filled block, where the stop order is sent; ok is the answer of the
\* exchange to that order.
event_thread_snapshot_balance(m, ok) ==
    /\ m \in pairs
    /\ et[m].pc = "snap"
    /\ et[m].i <= Len(et[m].B)
    /\ et[m].buy_is_filled => ~StopLockHeldByOrder(m)
    /\ ad' = [ad EXCEPT ![m] = InsertBalance(@, et[m].B[et[m].i])]
    /\ IF StopOrderPanics(et[m], stop_percent[m])
       THEN /\ et' = [et EXCEPT ![m].pc = "panicked_snap", ![m].buy_is_filled = FALSE]
            /\ UNCHANGED log
       ELSE /\ et' = [et EXCEPT ![m].i = @ + 1, ![m].buy_is_filled = FALSE]
            /\ log' = [log EXCEPT
                 ![m].stop_symbols =
                    IF et[m].buy_is_filled /\ IsSome(stop_percent[m])
                    THEN @ \cup {et[m].buy_symbol} ELSE @,
                 ![m].stops =
                    IF et[m].buy_is_filled /\ IsSome(stop_percent[m])
                    THEN Append(@, [order |-> submit_stop_order(
                                        Unwrap(stop_percent[m]),
                                        Unwrap(et[m].ave_trade_buy_price),
                                        Unwrap(et[m].price_dps),
                                        Unwrap(et[m].total_buy_quantity),
                                        et[m].buy_symbol),
                                    unwritten |-> Len(et[m].B) - et[m].i,
                                    price_paid |-> Unwrap(et[m].ave_trade_buy_price),
                                    base_commission |-> log[m].bought_base_commission,
                                    stop_percent |-> Unwrap(stop_percent[m]),
                                    ok |-> ok,
                                    after_err |->
                                        IF ok THEN <<>>
                                        ELSE submit_stop_order_err(
                                                 et[m].buy_symbol)])
                    ELSE @]
    /\ UNCHANGED <<mt, pairs, chan, ot, waiting, stop_percent, positions>>

\* if cancelled_order { ... }
AckAlways(e) == TRUE
AckCond(e) == e.cancelled_order

\* After the loop (lines 479-488): the cancel acknowledgement, then back to
\* conn.recv_message().
event_thread_snapshot_done(m) ==
    /\ m \in pairs
    /\ et[m].pc = "snap"
    /\ et[m].i > Len(et[m].B)
    /\ AckCond(et[m]) => ~CvLockHeldByOrder(m)
    /\ waiting' = [waiting EXCEPT ![m] = IF AckCond(et[m]) THEN FALSE ELSE @]
    /\ et' = [et EXCEPT ![m].pc = "recv", ![m].B = <<>>, ![m].i = 1,
                        ![m].cancelled_order = FALSE]
    /\ log' = [log EXCEPT ![m].fold = FoldSnapshot(@, et[m].B),
                          ![m].cancel_own = FALSE,
                          ![m].trail = IF @ \in {"buy", "canceled"}
                                       THEN IF @ = "buy" THEN "buy_snap"
                                            ELSE "canceled_snap"
                                       ELSE @]
    /\ UNCHANGED <<mt, pairs, chan, ot, stop_percent, ad, positions>>

\* A variant in which a CANCELED report arms the stop submission.
ReportCanceledArming(e, r) ==
    [e EXCEPT !.cancelled_order = TRUE,
              !.fills = 0,
              !.buy_is_filled = TRUE,
              !.trade_buy_price = IF r.o # "STOP_LOSS_LIMIT" THEN None ELSE @,
              !.ave_trade_buy_price = IF r.o # "STOP_LOSS_LIMIT" THEN None ELSE @,
              !.trade_commission_usdt = IF r.o # "STOP_LOSS_LIMIT" THEN None ELSE @]

\* "executionReport" with status CANCELED (lines 510-523).
ReportCanceled(e, r) ==
    [e EXCEPT !.cancelled_order = TRUE,
              !.fills = 0,
              !.trade_buy_price = IF r.o # "STOP_LOSS_LIMIT" THEN None ELSE @,
              !.ave_trade_buy_price = IF r.o # "STOP_LOSS_LIMIT" THEN None ELSE @,
              !.trade_commission_usdt = IF r.o # "STOP_LOSS_LIMIT" THEN None ELSE @]

\* pm.remove(&buy_symbol)
RemovePosition(pm, buy_symbol) ==
    [s \in Symbols |-> IF s = buy_symbol THEN None ELSE pm[s]]

\* ave_trade_buy_price = trade_buy_price / fills (floor to hundredths).
AveTradeBuyPrice(trade_buy_price, price, fills) ==
    (price + UnwrapOr(trade_buy_price, 0)) \div fills

\* compute_commision_usdt: the commission of one fill in USDT hundredths.
\* commission is in hundredths when paid in USDT and in tenths of the asset
\* otherwise; usdt_price is the answer of bex.get_price for the commission
\* asset (None is Err).
\* A variant that counts the commission unconverted when the lookup fails.
CommissionUnconverted(commission_asset, commission, price, symbol, usdt_price) ==
    IF commission_asset = "USDT" THEN commission
    ELSE IF \E p \in Managers :
               symbol = PairSymbol(p) /\ commission_asset = sell_currency(p)
    THEN (commission * price) \div 10
    ELSE IF IsSome(usdt_price) THEN (commission * Unwrap(usdt_price)) \div 10
    ELSE commission

compute_commision_usdt(commission_asset, commission, price, symbol, usdt_price) ==
    IF commission_asset = "USDT" THEN commission
    ELSE IF \E p \in Managers :
               symbol = PairSymbol(p) /\ commission_asset = sell_currency(p)
    THEN (commission * price) \div 10
    ELSE IF IsSome(usdt_price) THEN (commission * Unwrap(usdt_price)) \div 10
    ELSE 0

FillCommission(r) == compute_commision_usdt(r.N, r.n, r.L, r.s, r.px)

\* cuml_commission += ... (lines 540 and 627): what a fill adds to the session
\* total, given the fill's commission and the new per-trade total.
CumlAddsFill(fill_commission, trade_commission) == fill_commission
CumlAdds(fill_commission, trade_commission) == trade_commission

\* The commission statements of a FILLED or PARTIALLY_FILLED report (lines
\* 527-540, 614-627).
ReportCommission(e, r) ==
    LET t == UnwrapOr(e.trade_commission_usdt, 0) + FillCommission(r) IN
    [e EXCEPT !.trade_commission_usdt = Some(t),
              !.cuml_commission = @ + CumlAdds(FillCommission(r), t)]

\* Reference sums beside the locals: the commission of the fills of the order
\* being filled, and of all fills handled.
OrderCommission(l, r) ==
    IF l.order_commission.i = r.i
    THEN [l.order_commission EXCEPT !.sum = @ + FillCommission(r)]
    ELSE [i |-> r.i, sum |-> FillCommission(r)]

\* The commission field of a BUY fill when it is paid in the base asset of the
\* symbol (the asset bought), in tenths; 0 otherwise.
BaseCommission(r) ==
    IF r.S = "BUY" /\ \E p \in Managers :
                         r.s = PairSymbol(p) /\ r.N = sell_currency(p)
    THEN r.n ELSE 0
OrderBase(l, r) ==
    IF l.order_base.i = r.i
    THEN [l.order_base EXCEPT !.sum = @ + BaseCommission(r)]
    ELSE [i |-> r.i, sum |-> BaseCommission(r)]

\* "executionReport" with status FILLED and side BUY (lines 542-556): the
\* locals as they are when the assertion is reached.
ReportFilledBuy(e, r) ==
    [e EXCEPT !.price_dps = Some(decimal_places(r.L)),
              !.ave_trade_buy_price =
                  Some(AveTradeBuyPrice(e.trade_buy_price, r.L, e.fills + 1)),
              !.total_buy_quantity = Some(r.z),
              !.buy_symbol = r.s,
              !.fills = 0,
              !.trade_buy_price = None,
              !.buy_is_filled = TRUE]

\* One executionReport event (lines 490-637).  A failed
\* assert!(!pm.contains_key(&buy_symbol)) panics: the thread is gone.
event_thread_executionReport(m, r) ==
    /\ m \in pairs
    /\ et[m].pc = "recv"
    /\ CASE r.X = "CANCELED" ->
              /\ et' = [et EXCEPT ![m] = ReportCanceled(@, r)]
              /\ positions' = [positions EXCEPT ![m] = RemovePosition(@, et[m].buy_symbol)]
              /\ log' = [log EXCEPT ![m].trail = "canceled", ![m].last = Some(r),
                                    ![m].stop_canceled =
                                        /\ r.o = "STOP_LOSS_LIMIT"
                                        /\ r.s \in log[m].stop_symbols,
                                    ![m].partial = @ \ {r.i},
                                    ![m].canceled_seen = TRUE,
                                    ![m].cancel_own =
                                        ot[m].pc \in {"cancel", "wait", "blocked"}]
         [] r.X = "FILLED" /\ r.S = "BUY" ->
              LET e2 == ReportFilledBuy(ReportCommission(et[m], r), r) IN
              /\ log[m].session_commission + FillCommission(r) <= MaxCommission
              /\ ReportCommission(et[m], r).cuml_commission <= MaxCuml
              /\ IF IsSome(positions[m][r.s])
                 THEN /\ et' = [et EXCEPT ![m] = [e2 EXCEPT !.pc = "panicked"]]
                      /\ log' = [log EXCEPT ![m].stops = <<>>, ![m].trail = "buy",
                                            ![m].buy_seen = TRUE,
                                            ![m].last = Some(r),
                                            ![m].single = r.i \notin log[m].partial,
                                            ![m].partial = @ \ {r.i},
                                            ![m].order_commission = OrderCommission(log[m], r),
                                            ![m].order_base = OrderBase(log[m], r),
                                            ![m].session_commission = @ + FillCommission(r),
                                            ![m].bought_base_commission = OrderBase(log[m], r).sum,
                                            ![m].stp_at_buy = IsSome(stop_percent[m])]
                      /\ UNCHANGED positions
                 ELSE /\ et' = [et EXCEPT ![m] = e2]
                      /\ positions' = [positions EXCEPT ![m][r.s] =
                            Some([type |-> "Long",
                                  qty |-> Unwrap(e2.total_buy_quantity),
                                  price |-> Unwrap(e2.ave_trade_buy_price)])]
                      /\ log' = [log EXCEPT ![m].stops = <<>>, ![m].trail = "buy",
                                            ![m].buy_seen = TRUE,
                                            ![m].last = Some(r),
                                            ![m].single = r.i \notin log[m].partial,
                                            ![m].partial = @ \ {r.i},
                                            ![m].order_commission = OrderCommission(log[m], r),
                                            ![m].order_base = OrderBase(log[m], r),
                                            ![m].session_commission = @ + FillCommission(r),
                                            ![m].bought_base_commission = OrderBase(log[m], r).sum,
                                            ![m].stp_at_buy = IsSome(stop_percent[m])]
         [] r.X = "FILLED" /\ r.S # "BUY" ->
              /\ log[m].session_commission + FillCommission(r) <= MaxCommission
              /\ ReportCommission(et[m], r).cuml_commission <= MaxCuml
              /\ et' = [et EXCEPT ![m] = [ReportCommission(@, r) EXCEPT
                                              !.fills = 0,
                                              !.trade_commission_usdt = None]]
              /\ positions' = [positions EXCEPT ![m] = RemovePosition(@, et[m].buy_symbol)]
              /\ log' = [log EXCEPT ![m].trail = "sold", ![m].last = Some(r),
                                    ![m].order_commission = OrderCommission(log[m], r),
                                            ![m].order_base = OrderBase(log[m], r),
                                    ![m].session_commission = @ + FillCommission(r),
                                    ![m].partial = @ \ {r.i}]
         [] r.X = "PARTIALLY_FILLED" ->
              /\ et[m].fills < MaxFills
              /\ UnwrapOr(et[m].trade_buy_price, 0) + r.L <= MaxFills * r.L
              /\ log[m].session_commission + FillCommission(r) <= MaxCommission
              /\ ReportCommission(et[m], r).cuml_commission <= MaxCuml
              /\ et' = [et EXCEPT ![m] = [ReportCommission(@, r) EXCEPT
                                  !.fills = @ + 1,
                                  !.trade_buy_price =
                                     IF r.S = "BUY" THEN Some(r.L + UnwrapOr(@, 0)) ELSE @]]
              /\ log' = [log EXCEPT ![m].trail = "partial", ![m].last = Some(r),
                                    ![m].order_commission = OrderCommission(log[m], r),
                                            ![m].order_base = OrderBase(log[m], r),
                                    ![m].session_commission = @ + FillCommission(r),
                                    ![m].partial = @ \cup {r.i}]
              /\ UNCHANGED positions
         [] OTHER ->
              /\ log' = [log EXCEPT ![m].trail = "other", ![m].last = Some(r)]
              /\ UNCHANGED <<et, positions>>
    /\ UNCHANGED <<mt, pairs, chan, ot, waiting, stop_percent, ad>>

\* AccountManager::get_position
get_position(m, symbol) ==
    IF IsSome(positions[m][symbol])
    THEN LET p == Unwrap(positions[m][symbol]) IN Some(<<p.type, p.qty, p.price>>)
    ELSE None

\* ---------------------------------------------------- moving averages
\* A moving-average value is a quotient of integers <<numerator, denominator>>
\* (denominator > 0) in hundredths, so that the division by the window and
\* the EMA weight 2 / (num_candles + 1) are exact.
Q(n, d) == <<n, d>>
\* math::round::floor(x, dps) for dps = get_price_dps() = 2: the hundredths
\* below the quotient.
QFloor(q) == q[1] \div q[2]

get_price_dps(p) == 2
\* tick_size of the price filter, 0.01, in hundredths.
get_tick_size(p) == 1

RECURSIVE SeqSum(_)
SeqSum(s) == IF s = <<>> THEN 0 ELSE Head(s) + SeqSum(Tail(s))

\* VecDeque::pop_back / push_front: the front is the head of the sequence.
PopBack(acc) == IF acc = <<>> THEN acc ELSE SubSeq(acc, 1, Len(acc) - 1)
PushFront(acc, x) == <<x>> \o acc

\* MAData::new
MAData_new(num_candles) ==
    [latest |-> None, penultimate |-> None, penultimate_penultimate |-> None,
     acc |-> <<>>, num_candles |-> num_candles]

\* MAData::update
MAData_update(md, new_ma) ==
    [md EXCEPT !.penultimate_penultimate = md.penultimate,
               !.penultimate = md.latest,
               !.latest = Some(new_ma)]

\* if self.acc.len() == self.num_candles (line 107): is the window full?
WindowAlwaysFull(acc, num_candles) == TRUE
WindowFull(acc, num_candles) == Len(acc) = num_candles

\* MAData::compute
MAData_compute(md, close_price, ema) ==
    IF md.num_candles = 0 THEN md
    ELSE LET a1 == IF WindowFull(md.acc, md.num_candles)
                   THEN PopBack(md.acc) ELSE md.acc
             a2 == PushFront(a1, close_price)
             m2 == [md EXCEPT !.acc = a2]
         IN IF WindowFull(a2, md.num_candles)
            THEN LET new_ma == Q(SeqSum(a2), md.num_candles)
                     prev_ema == IF IsSome(md.latest) THEN Unwrap(md.latest)
                                 ELSE new_ma
                 IN IF ema
                    THEN MAData_update(m2,
                            Q(2 * close_price * prev_ema[2]
                                  + prev_ema[1] * (md.num_candles - 1),
                              prev_ema[2] * (md.num_candles + 1)))
                    ELSE MAData_update(m2, new_ma)
            ELSE m2

\* A rule that looks at the latest values only.
CrossLevelOnly(p, tr, closing_price) ==
    IF IsSome(tr.fast_ma_data.latest) /\ IsSome(tr.slow_ma_data.latest)
    THEN IF QFloor(Unwrap(tr.fast_ma_data.latest)) > QFloor(Unwrap(tr.slow_ma_data.latest))
         THEN "Long"
         ELSE IF QFloor(Unwrap(tr.fast_ma_data.latest)) < QFloor(Unwrap(tr.slow_ma_data.latest))
         THEN "Short" ELSE "None"
    ELSE "None"

\* ma::trading_decision_ma_cross on the tracker tr of pair p.
trading_decision_ma_cross(p, tr, closing_price) ==
    IF /\ IsSome(tr.fast_ma_data.latest)
       /\ IsSome(tr.slow_ma_data.latest)
       /\ IsSome(tr.fast_ma_data.penultimate)
    THEN LET f_ma_latest_val == QFloor(Unwrap(tr.fast_ma_data.latest))
             f_ma_prev_val == QFloor(Unwrap(tr.fast_ma_data.penultimate))
             s_ma_latest_val == QFloor(Unwrap(tr.slow_ma_data.latest))
         IN IF f_ma_latest_val > s_ma_latest_val /\ f_ma_prev_val < s_ma_latest_val
            THEN "Long"
            ELSE IF f_ma_latest_val < s_ma_latest_val
                    /\ f_ma_prev_val > s_ma_latest_val
                 THEN "Short"
                 ELSE "None"
    ELSE "None"

\* a < b for two quotients (the f64 values are compared unrounded).
QLess(a, b) == a[1] * b[2] < b[1] * a[2]

\* ma::trading_decision_ma_trend_change on the tracker tr of pair p: c is the
\* latest value of the slow average, p and pp the two previous values of the
\* fast one.
trading_decision_ma_trend_change(p, tr, closing_price) ==
    IF \/ ~IsSome(tr.slow_ma_data.latest)
       \/ ~IsSome(tr.fast_ma_data.latest)
       \/ ~IsSome(tr.fast_ma_data.penultimate)
       \/ ~IsSome(tr.fast_ma_data.penultimate_penultimate)
    THEN "None"
    ELSE LET c == Unwrap(tr.slow_ma_data.latest)
             prev == Unwrap(tr.fast_ma_data.penultimate)
             pp == Unwrap(tr.fast_ma_data.penultimate_penultimate)
         IN IF QLess(prev, c) /\ QLess(prev, pp) THEN "Long"
            ELSE IF QLess(c, prev) /\ QLess(pp, prev) THEN "Short"
            ELSE "None"

\* ----------------------------------------------------------------- MACD
\* The averages of the MACD are held in fixed point, in units of 1/10000 of
\* the quote asset (a close in hundredths times 100); every division rounds
\* down.  MAData::compute on such values:
MAData_compute_fixed(md, close_price, ema) ==
    IF md.num_candles = 0 THEN md
    ELSE LET a1 == IF WindowFull(md.acc, md.num_candles)
                   THEN PopBack(md.acc) ELSE md.acc
             a2 == PushFront(a1, close_price)
             m2 == [md EXCEPT !.acc = a2]
         IN IF WindowFull(a2, md.num_candles)
            THEN LET new_ma == SeqSum(a2) \div md.num_candles
                     prev_ema == IF IsSome(md.latest) THEN Unwrap(md.latest)
                                 ELSE new_ma
                 IN IF ema
                    THEN MAData_update(m2,
                            (2 * close_price + prev_ema * (md.num_candles - 1))
                                \div (md.num_candles + 1))
                    ELSE MAData_update(m2, new_ma)
            ELSE m2

\* MACD::new
MACD_new ==
    [ema12 |-> MAData_new(12), ema26 |-> MAData_new(26), signal |-> MAData_new(9),
     macd_latest |-> None, macd_previous |-> None]

\* MACD::compute
MACD_compute(mc, close_price) ==
    LET e12 == MAData_compute_fixed(mc.ema12, close_price, TRUE)
        e26 == MAData_compute_fixed(mc.ema26, close_price, TRUE)
    IN IF IsSome(e26.latest)
       THEN LET macd == Unwrap(e12.latest) - Unwrap(e26.latest) IN
            [ema12 |-> e12, ema26 |-> e26,
             signal |-> MAData_compute_fixed(mc.signal, macd, TRUE),
             macd_latest |-> Some(macd),
             macd_previous |-> IF IsSome(mc.macd_latest) THEN mc.macd_latest
                               ELSE mc.macd_previous]
       ELSE [mc EXCEPT !.ema12 = e12, !.ema26 = e26]

\* A rule without the trend gate.
MacdCrossOnly(p, tr, closing_price) ==
    IF /\ IsSome(tr.macd.macd_latest)
       /\ IsSome(tr.macd.signal.latest)
       /\ IsSome(tr.macd.macd_previous)
    THEN IF /\ Unwrap(tr.macd.macd_latest) > Unwrap(tr.macd.signal.latest)
            /\ Unwrap(tr.macd.macd_previous) < Unwrap(tr.macd.signal.latest)
         THEN "Long"
         ELSE IF /\ Unwrap(tr.macd.macd_latest) < Unwrap(tr.macd.signal.latest)
                 /\ Unwrap(tr.macd.macd_previous) > Unwrap(tr.macd.signal.latest)
         THEN "Short" ELSE "None"
    ELSE "None"

\* ma::trading_decision_macd on the tracker tr of pair p.
trading_decision_macd(p, tr, closing_price) ==
    IF /\ IsSome(tr.macd.macd_latest)
       /\ IsSome(tr.macd.signal.latest)
       /\ IsSome(tr.macd.macd_previous)
    THEN LET signal == Unwrap(tr.macd.signal.latest)
             macd_prev == Unwrap(tr.macd.macd_previous)
             macd == Unwrap(tr.macd.macd_latest)
         IN IF macd > signal /\ macd_prev < signal
            THEN IF tr.macd_trend_ma.num_candles > 0
                 THEN LET trend_ma_prev == tr.macd_trend_ma.penultimate
                          trend_ma_latest == tr.macd_trend_ma.latest
                      IN IF /\ IsSome(trend_ma_latest) /\ IsSome(trend_ma_prev)
                            /\ Unwrap(trend_ma_latest) >= Unwrap(trend_ma_prev)
                         THEN "Long" ELSE "None"
                 ELSE "Long"
            ELSE IF macd < signal /\ macd_prev > signal
                 THEN "Short"
                 ELSE "None"
    ELSE "None"

\* ------------------------------------------------- market data thread
\* MarketDataTracker as built by process_market_data_thread (lines 357-371),
\* with the thread's prev_closing_price as the warm-up loop leaves it.  The
\* orders are MARKET orders with stop percent 2.
MtInit(confirmation_candles, take_profit_percent, prev) ==
    [candle_color_history |-> <<>>,
     stop_percent |-> Some(2),
     take_profit_percent |-> take_profit_percent,
     confirmation_candles |-> confirmation_candles,
     prev_closing_price |-> prev,
     slow_ma_data |-> MAData_new(0),
     fast_ma_data |-> MAData_new(0),
     ema |-> FALSE,
     trade_signal |-> "MaCross",
     macd |-> MACD_new,
     macd_trend_ma |-> MAData_new(0),
     conn_pc |-> "recv",     \* kline stream: "recv", "reconnect" or "exited"
     cur_try |-> 0,          \* cur_try of reconnect_stream
     live |-> TRUE]          \* the thread is in its streaming loop

\* candle_color_history.capacity(): Vec::with_capacity(K) allocates exactly K
\* elements, and the history never outgrows it for K >= 1.
VecCapacity(confirmation_candles) == UnwrapOr(confirmation_candles, 0)

\* Vec::pop: removes the last element, if any.
VecPop(v) == IF v = <<>> THEN v ELSE SubSeq(v, 1, Len(v) - 1)

CandleColor(prev_closing_price, closing_price) ==
    IF prev_closing_price <= closing_price THEN "GREEN" ELSE "RED"

\* trade_confirmation_via_previous_candles: the new history and the returned
\* Option<(bool, CandleColor)>.
trade_confirmation_via_previous_candles(tr, closing_price, prev_closing_price) ==
    IF IsSome(tr.confirmation_candles)
    THEN IF IsSome(prev_closing_price)
         THEN LET h1 == IF Unwrap(tr.confirmation_candles)
                            = VecCapacity(tr.confirmation_candles)
                         THEN VecPop(tr.candle_color_history)
                         ELSE tr.candle_color_history
                  h2 == Append(h1, CandleColor(Unwrap(prev_closing_price), closing_price))
              IN [hist |-> h2,
                  pushed |-> Some(h2[Len(h2)]),
                  ret |-> Some(<<\A j \in 1..Len(h2) : h2[j] = h2[1], h2[1]>>)]
         ELSE [hist |-> tr.candle_color_history, pushed |-> None,
               ret |-> Some(<<FALSE, "GREEN">>)]
    ELSE [hist |-> tr.candle_color_history, pushed |-> None, ret |-> None]

\* let confirmed = ... (lines 143-163)
Confirmed(decision, confirmation) ==
    IF IsSome(confirmation)
    THEN LET c == Unwrap(confirmation) IN
         IF decision = "Long" THEN (IF c[2] = "GREEN" THEN c[1] ELSE FALSE)
         ELSE IF decision = "Short" THEN (IF c[2] = "RED" THEN c[1] ELSE FALSE)
         ELSE FALSE
    ELSE TRUE

\* let take_profit_override = ... (lines 172-190):
\* closing_price >= price + (price / 100) * take_profit_percent, prices in
\* hundredths.
TakeProfitNever(take_profit_percent, cur_position, closing_price) == FALSE
TakeProfitOverride(take_profit_percent, cur_position, closing_price) ==
    IF IsSome(take_profit_percent)
    THEN IF IsSome(cur_position)
         THEN /\ Unwrap(cur_position)[1] = "Long"
              /\ 100 * closing_price >=
                    100 * Unwrap(cur_position)[3]
                        + Unwrap(cur_position)[3] * Unwrap(take_profit_percent)
         ELSE FALSE
    ELSE FALSE

\* if decision == cur_position_type { decision = PositionType::None } (lines
\* 203-204); the else-if arm only logs.
SuppressNever(decision, cur_position_type) == decision
SuppressHeld(decision, cur_position_type) ==
    IF decision = cur_position_type THEN "None" ELSE decision

\* trading_decision: sig is what the indicator function of mt.trade_signal
\* returns for this candle.  The record holds the returned decision, the new
\* colour history and the locals.
trading_decision(m, sig, closing_price, prev_closing_price) ==
    IF get_bvlt_type(m) = None
    THEN LET conf == trade_confirmation_via_previous_candles(
                         mt[m], closing_price, prev_closing_price)
             confirmed == Confirmed(sig, conf.ret)
             cur_position == get_position(m, PairSymbol(m))
             cur_position_type ==
                 IF IsSome(cur_position) THEN Unwrap(cur_position)[1] ELSE "None"
             take_profit_override ==
                 TakeProfitOverride(mt[m].take_profit_percent, cur_position, closing_price)
             d1 == IF take_profit_override /\ cur_position_type = "Long"
                   THEN "Short" ELSE sig
         IN [decision |-> SuppressHeld(d1, cur_position_type),
             hist |-> conf.hist, pushed |-> conf.pushed,
             confirmed |-> confirmed,
             take_profit_override |-> take_profit_override,
             cur_position |-> cur_position]
    ELSE [decision |-> "None",
          hist |-> mt[m].candle_color_history, pushed |-> None,
          confirmed |-> FALSE, take_profit_override |-> FALSE,
          cur_position |-> get_position(m, PairSymbol(m))]

\* The last MaxK colours pushed.
PushColor(w, pushed) ==
    IF IsSome(pushed)
    THEN LET w2 == Append(w, Unwrap(pushed)) IN
         IF Len(w2) > MaxK THEN Tail(w2) ELSE w2
    ELSE w

\* One closed candle of the live stream (lines 441-466): process_close_data
\* with place_trades = true.  prev_closing_price is not assigned in this loop.
\* After a failed assert of the event thread the positions mutex is poisoned
\* and am.get_position panics: the thread processes no further candle.
process_close_data(m, sig, closing_price) ==
    /\ m \in pairs
    /\ get_bvlt_type(m) = None => et[m].pc # "panicked"
    /\ \E r \in {trading_decision(m, sig, closing_price, mt[m].prev_closing_price)} :
       /\ mt' = [mt EXCEPT ![m].candle_color_history = r.hist]
       /\ IF r.decision = "None"
          THEN UNCHANGED chan
          ELSE submit_order(m, OrderMsg(m, r.decision, None, mt[m].stop_percent))
       /\ log' = [log EXCEPT
             ![m].pushed = PushColor(@, r.pushed),
             ![m].decision = Some([sig |-> sig, closing_price |-> closing_price,
                                   cur_position |-> r.cur_position,
                                   confirmed |-> r.confirmed,
                                   take_profit_override |-> r.take_profit_override,
                                   returned |-> r.decision,
                                   enqueued |-> r.decision # "None"])]
    /\ UNCHANGED <<pairs, ot, waiting, stop_percent, ad, positions, et>>

\* Technical indicators of TradeSignal::MaCross (lines 231-234).
ComputeMaCross(tr, closing_price) ==
    [tr EXCEPT !.slow_ma_data = MAData_compute(@, closing_price, tr.ema),
               !.fast_ma_data = MAData_compute(@, closing_price, tr.ema)]

\* One closed candle of the historical klines (lines 388-409):
\* process_close_data with place_trades = false, which returns after the
\* indicators.  At most `limit` = slow_ma candles are returned.
warmup_close_data(m, closing_price) ==
    /\ m \in pairs
    /\ ~mt[m].live
    /\ log[m].fed < mt[m].slow_ma_data.num_candles
    /\ mt' = [mt EXCEPT ![m] =
                 [ComputeMaCross(mt[m], closing_price)
                     EXCEPT !.prev_closing_price = Some(closing_price)]]
    /\ log' = [log EXCEPT ![m].fed = @ + 1]
    /\ UNCHANGED <<pairs, chan, ot, waiting, stop_percent, ad, positions, et>>

\* The thread switches over to the kline stream (lines 430-436).
connect_kline_stream(m) ==
    /\ m \in pairs
    /\ ~mt[m].live
    /\ mt' = [mt EXCEPT ![m].live = TRUE]
    /\ UNCHANGED <<pairs, chan, ot, waiting, stop_percent, ad, positions, et, log>>

\* One closed candle of the live stream for TradeSignal::MaCross:
\* process_close_data with place_trades = true, the indicators included.
process_close_data_MaCross(m, closing_price) ==
    /\ m \in pairs
    /\ mt[m].live
    /\ log[m].fed < MaxFed
    /\ get_bvlt_type(m) = None => et[m].pc # "panicked"
    /\ \E tr \in {ComputeMaCross(mt[m], closing_price)} :
       \E sig \in {trading_decision_ma_cross(m, tr, closing_price)} :
       \E r \in {trading_decision(m, sig, closing_price, mt[m].prev_closing_price)} :
       /\ mt' = [mt EXCEPT ![m] = [tr EXCEPT !.candle_color_history = r.hist]]
       /\ IF r.decision = "None"
          THEN UNCHANGED chan
          ELSE submit_order(m, OrderMsg(m, r.decision, None, mt[m].stop_percent))
       /\ log' = [log EXCEPT
             ![m].fed = @ + 1,
             ![m].signal = sig,
             ![m].pushed = PushColor(@, r.pushed),
             ![m].decision = Some([sig |-> sig, closing_price |-> closing_price,
                                   cur_position |-> r.cur_position,
                                   confirmed |-> r.confirmed,
                                   take_profit_override |-> r.take_profit_override,
                                   returned |-> r.decision,
                                   enqueued |-> r.decision # "None"])]
    /\ UNCHANGED <<pairs, ot, waiting, stop_percent, ad, positions, et>>

\* Technical indicators of process_close_data for the tracker's trade_signal
\* (lines 229-245); the fixed-point averages are fed the close times 100.
ComputeIndicators(tr, closing_price) ==
    CASE tr.trade_signal = "MaCross" -> ComputeMaCross(tr, closing_price)
      [] tr.trade_signal = "MaTrendReversal" ->
            [tr EXCEPT !.fast_ma_data = MAData_compute(@, closing_price, tr.ema)]
      [] tr.trade_signal = "MACD" ->
            [tr EXCEPT !.macd = MACD_compute(@, closing_price * 100),
                       !.macd_trend_ma =
                           IF @.num_candles > 0
                           THEN MAData_compute_fixed(@, closing_price * 100, tr.ema)
                           ELSE @]

\* decision = match mt.trade_signal { .. } (lines 129-135)
IndicatorDecision(p, tr, closing_price) ==
    CASE tr.trade_signal = "MaCross" -> trading_decision_ma_cross(p, tr, closing_price)
      [] tr.trade_signal = "MaTrendReversal" ->
            trading_decision_ma_trend_change(p, tr, closing_price)
      [] tr.trade_signal = "MACD" -> trading_decision_macd(p, tr, closing_price)

\* limit of the historical klines request (lines 377-384).
historical_candles_required(tr) ==
    IF tr.macd_trend_ma.num_candles > tr.slow_ma_data.num_candles
    THEN tr.macd_trend_ma.num_candles
    ELSE tr.slow_ma_data.num_candles

\* The number of closed candles a tracker is given in the specifications.
FedCap(tr) == IF tr.trade_signal = "MACD" THEN MaxMacdFed ELSE MaxFed

\* A variant that replays the historical klines with place_trades = true.
HistoryCloseDataTrading(m, closing_price) ==
    /\ m \in pairs
    /\ ~mt[m].live
    /\ log[m].fed < historical_candles_required(mt[m])
    /\ \E tr \in {ComputeIndicators(mt[m], closing_price)} :
       \E sig \in {IndicatorDecision(m, tr, closing_price)} :
       \E r \in {trading_decision(m, sig, closing_price, mt[m].prev_closing_price)} :
       /\ mt' = [mt EXCEPT ![m] = [tr EXCEPT !.candle_color_history = r.hist,
                                             !.prev_closing_price = Some(closing_price)]]
       /\ IF r.decision = "None"
          THEN UNCHANGED chan
          ELSE submit_order(m, OrderMsg(m, r.decision, None, mt[m].stop_percent))
       /\ log' = [log EXCEPT ![m].fed = @ + 1,
                             ![m].slow_of_closes = MAData_compute(@, closing_price, mt[m].ema),
                             ![m].macd_before = mt[m].macd.macd_latest]
    /\ UNCHANGED <<pairs, ot, waiting, stop_percent, ad, positions, et>>

\* One closed candle of the historical klines for any trade_signal.
history_close_data(m, closing_price) ==
    /\ m \in pairs
    /\ ~mt[m].live
    /\ log[m].fed < historical_candles_required(mt[m])
    /\ mt' = [mt EXCEPT ![m] =
                 [ComputeIndicators(mt[m], closing_price)
                     EXCEPT !.prev_closing_price = Some(closing_price)]]
    /\ log' = [log EXCEPT ![m].fed = @ + 1,
                          ![m].slow_of_closes = MAData_compute(@, closing_price, mt[m].ema),
                          ![m].macd_before = mt[m].macd.macd_latest]
    /\ UNCHANGED <<pairs, chan, ot, waiting, stop_percent, ad, positions, et>>

\* One closed candle of the live stream for any trade_signal.
stream_close_data(m, closing_price) ==
    /\ m \in pairs
    /\ mt[m].live
    /\ mt[m].conn_pc = "recv"
    /\ log[m].fed < FedCap(mt[m])
    /\ get_bvlt_type(m) = None => et[m].pc # "panicked"
    /\ \E tr \in {ComputeIndicators(mt[m], closing_price)} :
       \E sig \in {IndicatorDecision(m, tr, closing_price)} :
       \E r \in {trading_decision(m, sig, closing_price, mt[m].prev_closing_price)} :
       /\ mt' = [mt EXCEPT ![m] = [tr EXCEPT !.candle_color_history = r.hist]]
       /\ IF r.decision = "None"
          THEN UNCHANGED chan
          ELSE submit_order(m, OrderMsg(m, r.decision, None, mt[m].stop_percent))
       /\ log' = [log EXCEPT
             ![m].fed = @ + 1,
             ![m].signal = sig,
             ![m].macd_before = mt[m].macd.macd_latest,
             ![m].slow_of_closes = MAData_compute(@, closing_price, mt[m].ema),
             ![m].pushed = PushColor(@, r.pushed),
             ![m].decision = Some([sig |-> sig, closing_price |-> closing_price,
                                   cur_position |-> r.cur_position,
                                   confirmed |-> r.confirmed,
                                   take_profit_override |-> r.take_profit_override,
                                   returned |-> r.decision,
                                   enqueued |-> r.decision # "None"])]
    /\ UNCHANGED <<pairs, ot, waiting, stop_percent, ad, positions, et>>

\* A kline of the stream (its "c" and "x" fields) and a stick of the
\* historical klines.
Kline(c, x) == [c |-> c, x |-> x]
Stick(close_price, close_time) == [close_price |-> close_price, close_time |-> close_time]

\* if cstick_data["x"] == false { continue } (lines 446-449)
StreamCandleAlwaysClosed(k) == TRUE
StreamCandleClosed(k) == k.x # FALSE
\* if st >= stick.close_time (line 391)
HistoryCandleClosed(st, stick) == st >= stick.close_time

\* One stick of the for loop over the historical klines, st being the server
\* time read before the request.
history_candle(m, st, stick) ==
    /\ m \in pairs
    /\ ~mt[m].live
    /\ IF HistoryCandleClosed(st, stick)
       THEN history_close_data(m, stick.close_price)
       ELSE /\ log' = [log EXCEPT ![m].unclosed = @ \cup {"history"}]
            /\ UNCHANGED <<mt, pairs, chan, ot, waiting, stop_percent, ad, positions, et>>

\* One Text message of the kline stream.
kline_message(m, k) ==
    /\ m \in pairs
    /\ mt[m].live
    /\ IF StreamCandleClosed(k)
       THEN stream_close_data(m, k.c)
       ELSE /\ log' = [log EXCEPT ![m].unclosed = @ \cup {"stream"}]
            /\ UNCHANGED <<mt, pairs, chan, ot, waiting, stop_percent, ad, positions, et>>

\* OwnedMessage::Close on the kline stream (lines 490-496): reconnect_stream
\* is entered with cur_try = 0.
kline_Close(m) ==
    /\ m \in pairs
    /\ mt[m].live
    /\ mt[m].conn_pc = "recv"
    /\ mt' = [mt EXCEPT ![m].conn_pc = "reconnect", ![m].cur_try = 0]
    /\ log' = [log EXCEPT ![m].kline_tries = <<>>]
    /\ UNCHANGED <<pairs, chan, ot, waiting, stop_percent, ad, positions, et>>

\* while cur_try < max_tries (line 304)
ReconnectStreamForever(cur_try) == TRUE
ReconnectStreamLoop(cur_try) == cur_try < max_tries

\* One iteration of the loop of reconnect_stream: ws_client.connect succeeds
\* (return Some(c); conn = c) or fails (sleep).  When the loop condition fails
\* afterwards the function returns None and the thread breaks out of its
\* receive loop, shuts the connection down and returns.
reconnect_stream(m, ok) ==
    /\ m \in pairs
    /\ mt[m].conn_pc = "reconnect"
    /\ ReconnectStreamLoop(mt[m].cur_try)
    /\ mt' = [mt EXCEPT ![m].cur_try = @ + 1,
                        ![m].conn_pc =
                            IF ok THEN "recv"
                            ELSE IF ReconnectStreamLoop(mt[m].cur_try + 1)
                            THEN "reconnect" ELSE "exited"]
    /\ log' = [log EXCEPT ![m].kline_tries = Append(@, ok)]
    /\ UNCHANGED <<pairs, chan, ot, waiting, stop_percent, ad, positions, et>>

\* ------------------------------------------------- order.rs stop loss
\* Fill as order::buy returns it: average price, quantity and commission paid
\* (tenths of the base asset when commissionAsset is the base asset).
Fill(ave_price, qty, commission, commissionAsset) ==
    [ave_price |-> ave_price, qty |-> qty, commission |-> commission,
     commissionAsset |-> commissionAsset]

\* order::place_stop_limit: the order parameters sent.
place_stop_limit(symbol, quantity, stop_trigger_price, limit_price) ==
    [symbol |-> symbol, side |-> "SELL", type |-> "STOP_LOSS_LIMIT",
     quantity |-> quantity, stopPrice |-> stop_trigger_price,
     price |-> limit_price]

\* order::place_order_quantity(Short, tp, quantity, None): a MARKET sell.
MarketSell(symbol, quantity) ==
    [symbol |-> symbol, side |-> "SELL", type |-> "MARKET", quantity |-> quantity]

\* order::place_stop_loss: the orders sent, in order; ok_stop is the answer of
\* the exchange to the stop order.
place_stop_loss(ave_fill, p, stp, ok_stop) ==
    LET stop_trigger_price ==
            Floor(ave_fill.ave_price - stp * get_tick_size(p), get_price_dps(p), 2)
        stop_limit_price ==
            Floor(stop_trigger_price - get_tick_size(p), get_price_dps(p), 2)
        ncoins == Floor(IF ave_fill.commissionAsset = sell_currency(p)
                        THEN ave_fill.qty - ave_fill.commission
                        ELSE ave_fill.qty,
                        get_qty_dps(p), 1)
        stop == place_stop_limit(PairSymbol(p), ncoins, stop_trigger_price,
                                 stop_limit_price)
    IN IF ok_stop THEN <<stop>>
       ELSE <<stop, MarketSell(PairSymbol(p), ncoins)>>

\* bvlt_trading_thread after order::buy returned Ok(ave_fill) (trading.rs
\* lines 314-323): the stop is placed by the thread that bought.  This thread
\* does not go through the AccountManager.
bvlt_place_stop_loss(m, ave_fill, stp, ok_stop) ==
    /\ m \in pairs
    /\ log' = [log EXCEPT ![m].stop_loss =
                  Some([fill |-> ave_fill, stop_percent |-> stp, ok |-> ok_stop,
                        orders |-> place_stop_loss(ave_fill, m, stp, ok_stop)])]
    /\ UNCHANGED <<pairs, chan, ot, waiting, stop_percent, ad, positions, et, mt>>

\* ------------------------------------------------------- margin::trade
\* The isolated-margin account data of the pair as the exchange returns it:
\* base quantities in tenths, quote amounts and the index price in hundredths.
MarginAd(free, borrowed, interest, quote_free, net_quote, index_price) ==
    [free |-> free, borrowed |-> borrowed, interest |-> interest,
     quote_free |-> quote_free, net_quote |-> net_quote,
     index_price |-> index_price]
\* The answer of the exchange to an order: Err(code), or Ok with the status
\* and the fills (averaged by order::get_average_fill, None for no fill).
OrdErr(code) == [ok |-> FALSE, code |-> code]
OrdOk(status, fill) == [ok |-> TRUE, status |-> status, fill |-> fill]
\* BinanceErrorCode::InsufficientBalance
InsufficientBalance == -2010

\* The requests margin::trade sends.
CancelCall(symbol) == [call |-> "margin_cancel_all_orders", symbol |-> symbol]
PriceCall(symbol) == [call |-> "get_price", symbol |-> symbol]
AdCall(symbol) == [call |-> "get_isolated_margin_account_data", symbol |-> symbol]
RepayCall(asset, symbol, amount) ==
    [call |-> "margin_repay", asset |-> asset, symbol |-> symbol, amount |-> amount]
\* close_short_position: MARKET BUY of purchase_qty.
CloseShortOrder(p, purchase_qty) ==
    [call |-> "send_margin_order", symbol |-> PairSymbol(p), side |-> "BUY",
     type |-> "MARKET", quantity |-> purchase_qty]
\* close_long_position: MARKET SELL, or LIMIT FOK SELL at price.
CloseLongOrder(p, sell_qty, price) ==
    IF IsSome(price)
    THEN [call |-> "send_margin_order", symbol |-> PairSymbol(p), side |-> "SELL",
          type |-> "LIMIT", timeInForce |-> "FOK", quantity |-> sell_qty,
          price |-> Unwrap(price)]
    ELSE [call |-> "send_margin_order", symbol |-> PairSymbol(p), side |-> "SELL",
          type |-> "MARKET", quantity |-> sell_qty]
\* enter_long_position: MARKET BUY with quoteOrderQty = spend, or LIMIT GTC BUY
\* of floor(spend / price) at price; MARGIN_BUY when borrow.
EnterLongOrder(p, spend, price, borrow) ==
    IF IsSome(price)
    THEN [call |-> "send_margin_order", symbol |-> PairSymbol(p), side |-> "BUY",
          type |-> "LIMIT", timeInForce |-> "GTC", borrow |-> borrow,
          quantity |-> Floor((spend * 10) \div Unwrap(price), get_qty_dps(p), 1),
          price |-> Unwrap(price)]
    ELSE [call |-> "send_margin_order", symbol |-> PairSymbol(p), side |-> "BUY",
          type |-> "MARKET", borrow |-> borrow, quoteOrderQty |-> spend]
\* short_sell: SELL with MARGIN_BUY, MARKET or LIMIT GTC.
ShortSellOrder(p, qty, price) ==
    IF IsSome(price)
    THEN [call |-> "send_short_order", symbol |-> PairSymbol(p), side |-> "SELL",
          type |-> "LIMIT", timeInForce |-> "GTC", quantity |-> qty,
          price |-> Unwrap(price)]
    ELSE [call |-> "send_short_order", symbol |-> PairSymbol(p), side |-> "SELL",
          type |-> "MARKET", quantity |-> qty]
\* margin.rs place_stop_loss: a STOP_LOSS_LIMIT SELL; its answer is only logged.
MarginStopOrder(p, ave_fill, stp) ==
    LET ncoins == Floor(IF ave_fill.commissionAsset = sell_currency(p)
                        THEN ave_fill.qty - ave_fill.commission
                        ELSE ave_fill.qty,
                        get_qty_dps(p), 1)
        stop_trigger_price ==
            Floor(ave_fill.ave_price - stp * get_tick_size(p), get_price_dps(p), 2)
    IN [call |-> "send_margin_order", symbol |-> PairSymbol(p), side |-> "SELL",
        type |-> "STOP_LOSS_LIMIT", quantity |-> ncoins,
        stopPrice |-> stop_trigger_price,
        price |-> Floor(stop_trigger_price - get_tick_size(p), get_price_dps(p), 2)]

\* round::ceil(owed + owed / 1000.0, get_qty_dps()) for owed in tenths.
PurchaseQty(p, owed) ==
    LET unit == 1000 * Pow10(1 - get_qty_dps(p)) IN
    ((owed * 1001 + unit - 1) \div unit) * Pow10(1 - get_qty_dps(p))

\* What a run of trade has done: the requests sent, in order, and how it
\* ended ("done", "error" for a return after error!, "panic").
Ran(calls, end) == [calls |-> calls, end |-> end]

\* close_short_position (lines 61-98): the order, then the repay.
close_short_position(p, purchase_qty, owed, x) ==
    IF ~x.close.ok THEN Ran(<<CloseShortOrder(p, purchase_qty)>>, "error")
    ELSE Ran(<<CloseShortOrder(p, purchase_qty),
               RepayCall(sell_currency(p), PairSymbol(p), owed)>>,
             IF x.repay = 0 THEN "done" ELSE "error")

\* close_long_position (lines 102-158): the requests sent and the result, 0
\* for Ok and the error code for Err.
close_long_position(p, sell_qty, price, owed, x) ==
    IF ~x.close.ok
    THEN [calls |-> <<CloseLongOrder(p, sell_qty, price)>>, res |-> x.close.code]
    ELSE IF IsSome(owed) /\ x.close.status = "FILLED"
    THEN [calls |-> <<CloseLongOrder(p, sell_qty, price),
                      RepayCall(buy_currency(p), PairSymbol(p), Unwrap(owed))>>,
          res |-> x.repay]
    ELSE [calls |-> <<CloseLongOrder(p, sell_qty, price)>>, res |-> -1]

\* Steps 3 and 4 of the Long branch (lines 376-464).
trade_enter_long(p, x) ==
    IF ~IsSome(x.ad2) THEN Ran(<<AdCall(PairSymbol(p))>>, "error")
    ELSE
    LET avail_spend == Floor(Unwrap(x.ad2).quote_free, get_price_dps(p), 2)
        final_spend == IF IsSome(x.leverage)
                       THEN Floor(avail_spend * Unwrap(x.leverage), get_price_dps(p), 2)
                       ELSE avail_spend
        limit_price == IF x.order_type = "Market" THEN None
                       ELSE Some(x.closing_price + x.limit_offset * get_tick_size(p))
        order == EnterLongOrder(p, final_spend, limit_price, IsSome(x.leverage))
    IN IF ~x.entry.ok THEN Ran(<<AdCall(PairSymbol(p)), order>>, "error")
       ELSE IF IsSome(x.entry.fill)
       THEN Ran(<<AdCall(PairSymbol(p)), order,
                  MarginStopOrder(p, Unwrap(x.entry.fill), x.stop_percent)>>, "done")
       ELSE Ran(<<AdCall(PairSymbol(p)), order>>, "done")

\* A variant that enters the long whatever close_short_position returned.
TradeLongAlwaysEnters(p, x) ==
    LET owed == Unwrap(x.ad1).interest + Unwrap(x.ad1).borrowed
        purchase_qty == PurchaseQty(p, owed)
        closing == IF Unwrap(x.price) * purchase_qty >= get_min_notional(p) * 10
                   THEN close_short_position(p, purchase_qty, owed, x)
                   ELSE Ran(<<>>, "done")
        entering == trade_enter_long(p, x)
    IN Ran(<<AdCall(PairSymbol(p))>> \o closing.calls \o entering.calls,
           entering.end)

\* The Long branch from step 2 on (lines 297-464); price and ad1 are there.
trade_long(p, x) ==
    LET owed == Unwrap(x.ad1).interest + Unwrap(x.ad1).borrowed
        purchase_qty == PurchaseQty(p, owed)
        closing == IF Unwrap(x.price) * purchase_qty >= get_min_notional(p) * 10
                   THEN close_short_position(p, purchase_qty, owed, x)
                   ELSE Ran(<<>>, "done")
        entering == trade_enter_long(p, x)
    IN IF closing.end # "done"
       THEN Ran(<<AdCall(PairSymbol(p))>> \o closing.calls, "error")
       ELSE Ran(<<AdCall(PairSymbol(p))>> \o closing.calls \o entering.calls,
                entering.end)

\* Step 3 of the Short branch (lines 566-654): borrow and sell.
trade_borrow_and_sell(p, x) ==
    IF ~IsSome(x.ad2) THEN Ran(<<AdCall(PairSymbol(p))>>, "panic")
    ELSE
    LET borrow_qty ==
            Floor((Unwrap(x.ad2).net_quote * UnwrapOr(x.leverage, 1) * 10)
                      \div Unwrap(x.ad2).index_price, get_qty_dps(p), 1)
        limit_price == IF x.order_type = "Market" THEN None
                       ELSE Some(x.closing_price - x.limit_offset * get_tick_size(p))
        order == ShortSellOrder(p, borrow_qty, limit_price)
    IN IF Unwrap(x.price) * borrow_qty >= get_min_notional(p) * 10
       THEN IF x.entry.ok /\ IsSome(x.entry.fill)
            THEN Ran(<<AdCall(PairSymbol(p)), order,
                       MarginStopOrder(p, Unwrap(x.entry.fill), -x.stop_percent)>>,
                     "done")
            ELSE Ran(<<AdCall(PairSymbol(p)), order>>, "done")
       ELSE Ran(<<AdCall(PairSymbol(p))>>, "done")

\* The Short branch from step 2 on (lines 468-654).
trade_short(p, x) ==
    LET a1 == Unwrap(x.ad1)
        owed == IF IsSome(x.leverage) /\ a1.interest + a1.borrowed > 0
                THEN Some(a1.interest + a1.borrowed) ELSE None
        limit_price == IF x.order_type = "Market" THEN None
                       ELSE Some(x.closing_price - x.limit_offset * get_tick_size(p))
        sell_qty == Floor(a1.free, get_qty_dps(p), 1)
        closing == IF Unwrap(x.price) * sell_qty >= get_min_notional(p) * 10
                   THEN close_long_position(p, sell_qty, limit_price, owed, x)
                   ELSE [calls |-> <<>>, res |-> 0]
        selling == trade_borrow_and_sell(p, x)
    IN IF closing.res # 0 /\ closing.res # InsufficientBalance
       THEN Ran(<<AdCall(PairSymbol(p))>> \o closing.calls, "error")
       ELSE Ran(<<AdCall(PairSymbol(p))>> \o closing.calls \o selling.calls,
                selling.end)

\* margin::trade (lines 268-658); x holds the configuration, the signal and
\* the answers of the exchange.  An Err of margin_cancel_all_orders is ignored.
trade(p, desired_position, x) ==
    LET head == <<CancelCall(PairSymbol(p)), PriceCall(PairSymbol(p))>> IN
    IF ~IsSome(x.price) THEN Ran(head, "error")
    ELSE IF ~IsSome(x.ad1) THEN Ran(head \o <<AdCall(PairSymbol(p))>>, "error")
    ELSE LET rest == IF desired_position = "Long" THEN trade_long(p, x)
                     ELSE trade_short(p, x)
         IN Ran(head \o rest.calls, rest.end)

\* trade_thread (trading.rs lines 127-141) handling one message with margin
\* trading configured: one call of margin::trade.
trade_thread_margin(m, ta, x) ==
    /\ m \in pairs
    /\ log' = [log EXCEPT ![m].margin =
                  Some([position |-> ta, x |-> x, ran |-> trade(m, ta, x)])]
    /\ UNCHANGED <<pairs, chan, ot, waiting, stop_percent, ad, positions, et, mt>>

\* ------------------------------------------------- AccountManager::new
\* The state in which AccountManager::new spawns the event thread: empty
\* balance mirror, no connection, nobody at the barrier.
EtStart ==
    [EtInit EXCEPT !.pc = "start", !.conn = FALSE, !.ready_barrier = {}]

\* Barrier::new(2): wait() returns once both parties have called it.
BarrierOpenToFirst(b) == b # {}
BarrierOpen(b) == b = {"new", "event"}

\* bex.get_account_data() and the seeding of the mirror (lines 344-372);
\* Err panics the event thread.
event_thread_get_account_data(m, remote_ad, ok) ==
    /\ m \notin pairs
    /\ et[m].pc = "start"
    /\ IF ok
       THEN /\ ad' = [ad EXCEPT ![m] = SeedBalances(remote_ad)]
            /\ et' = [et EXCEPT ![m].pc = "listen_key"]
            /\ log' = [log EXCEPT ![m].fold = SeedBalances(remote_ad),
                                  ![m].seeded = TRUE]
       ELSE /\ et' = [et EXCEPT ![m].pc = "panicked_start"]
            /\ UNCHANGED <<ad, log>>
    /\ UNCHANGED <<pairs, chan, ot, waiting, stop_percent, positions, mt>>

\* bex.create_listen_key() (lines 374-379); Err panics.
event_thread_create_listen_key(m, ok) ==
    /\ m \notin pairs
    /\ et[m].pc = "listen_key"
    /\ et' = [et EXCEPT ![m].pc = IF ok THEN "connect" ELSE "panicked_start"]
    /\ UNCHANGED <<pairs, chan, ot, waiting, stop_percent, ad, positions, mt, log>>

\* connect_stream(&lk).unwrap() (line 381); None panics.
event_thread_connect_stream(m, ok) ==
    /\ m \notin pairs
    /\ et[m].pc = "connect"
    /\ et' = [et EXCEPT ![m].pc = IF ok THEN "barrier" ELSE "panicked_start",
                        ![m].conn = ok]
    /\ UNCHANGED <<pairs, chan, ot, waiting, stop_percent, ad, positions, mt, log>>

\* ready_barrier.wait() of the event thread (line 384): the call, and the
\* return into the event loop.
event_thread_barrier_wait(m) ==
    /\ et[m].pc = "barrier"
    /\ "event" \notin et[m].ready_barrier
    /\ et' = [et EXCEPT ![m].ready_barrier = @ \cup {"event"}]
    /\ UNCHANGED <<pairs, chan, ot, waiting, stop_percent, ad, positions, mt, log>>

event_thread_barrier_return(m) ==
    /\ et[m].pc = "barrier"
    /\ "event" \in et[m].ready_barrier
    /\ BarrierOpen(et[m].ready_barrier)
    /\ et' = [et EXCEPT ![m].pc = "recv"]
    /\ UNCHANGED <<pairs, chan, ot, waiting, stop_percent, ad, positions, mt, log>>

\* ready_barrier.wait() of AccountManager::new (line 775), after both threads
\* were spawned: the call, and the return of new with the AccountManager.
AccountManager_new_wait(m) ==
    /\ m \notin pairs
    /\ "new" \notin et[m].ready_barrier
    /\ et' = [et EXCEPT ![m].ready_barrier = @ \cup {"new"}]
    /\ UNCHANGED <<pairs, chan, ot, waiting, stop_percent, ad, positions, mt, log>>

AccountManager_new_return(m) ==
    /\ m \notin pairs
    /\ "new" \in et[m].ready_barrier
    /\ BarrierOpen(et[m].ready_barrier)
    /\ pairs' = pairs \cup {m}
    /\ UNCHANGED <<chan, ot, waiting, stop_percent, ad, positions, et, mt, log>>

\* ------------------------------------------------- stream reconnect
\* OwnedMessage::Close received (lines 663-666): the peer closed the stream.
event_thread_Close(m) ==
    /\ m \in pairs
    /\ et[m].pc = "recv"
    /\ et' = [et EXCEPT ![m].pc = "reconnect", ![m].cur_try = 0,
                        ![m].running = FALSE, ![m].conn = FALSE]
    /\ log' = [log EXCEPT ![m].reconnected = FALSE,
                          ![m].retried_after_success = FALSE]
    /\ UNCHANGED <<pairs, chan, ot, waiting, stop_percent, ad, positions, mt>>

\* while cur_try < 5 (line 668)
ReconnectLoop(e) == e.cur_try < RECONNECT_TRIES

\* One iteration of the reconnect loop (lines 669-695): delete_listen_key,
\* create_listen_key, connect_stream, each answering Ok or Err; every path
\* ends in `continue`.  A failed connect leaves conn as it was.
event_thread_reconnect(m, del_ok, create_ok, conn_ok) ==
    /\ m \in pairs
    /\ et[m].pc = "reconnect"
    /\ ReconnectLoop(et[m])
    /\ et' = [et EXCEPT
          ![m].cur_try = @ + 1,
          ![m].lk = IF del_ok /\ create_ok THEN @ + 1 ELSE @,
          ![m].conn = IF del_ok /\ create_ok /\ conn_ok THEN TRUE ELSE @,
          ![m].conn_lk = IF del_ok /\ create_ok /\ conn_ok THEN et[m].lk + 1 ELSE @]
    /\ log' = [log EXCEPT
          ![m].reconnected = @ \/ (del_ok /\ create_ok /\ conn_ok),
          ![m].retried_after_success = @ \/ log[m].reconnected]
    /\ UNCHANGED <<pairs, chan, ot, waiting, stop_percent, ad, positions, mt>>

\* The loop is left; bex.ping_listen_key (line 701), whose result is only
\* logged; then the test of `while running` (line 400).
event_thread_reconnect_done(m) ==
    /\ m \in pairs
    /\ et[m].pc = "reconnect"
    /\ ~ReconnectLoop(et[m])
    /\ et' = [et EXCEPT ![m].pc = IF et[m].running THEN "recv" ELSE "terminated"]
    /\ UNCHANGED <<pairs, chan, ot, waiting, stop_percent, ad, positions, mt, log>>

\* ------------------------------------------------------------------- inputs
\* executionReport payload: order id, symbol, side, order type, status,
\* cumulative filled quantity, last price, commission and commission asset;
\* px is the answer of bex.get_price to the conversion of a commission paid
\* in a third asset.
ExecutionReportN(i, s, S, o, X, z, L, n, N, px) ==
    [e |-> "executionReport", i |-> i, s |-> s, S |-> S, o |-> o, X |-> X,
     z |-> z, L |-> L, n |-> n, N |-> N, px |-> px]
\* A report with no commission.
ExecutionReport(i, s, S, o, X, z, L) ==
    ExecutionReportN(i, s, S, o, X, z, L, 0, "USDT", None)
BalanceEntry(a, f, l) == [a |-> a, f |-> f, l |-> l]

\* State of one AccountManager after AccountManager::new: the balance mirror
\* is seeded from remote_ad, the bool of order_completed_cv is true.
LogInit(remote_ad) ==
    [gave_up |-> FALSE,      \* "gave up waiting for order cancellation" logged
                             \* for the current command
     placed |-> <<>>,        \* place_order_quantity calls of the current command
     stops |-> <<>>,         \* stop orders sent since the last BUY FILLED report
     buy_seen |-> FALSE,     \* a BUY FILLED report has been handled
     last |-> None,          \* the last executionReport handled
     trail |-> "none",       \* what was handled since: "buy", then "buy_snap"
                             \* once a whole snapshot has been applied
     single |-> FALSE,       \* the last BUY FILLED order had no partial fill
     stp_at_buy |-> FALSE,   \* a stop percent was recorded when it was handled
     stop_symbols |-> {},    \* symbols a stop order was sent for
     stop_canceled |-> FALSE, \* the last CANCELED report was for a stop order
                             \* of a symbol a stop order had been sent for
     pushed |-> <<>>,        \* the last MaxK candle colours pushed into the
                             \* confirmation history
     decision |-> None,      \* the last trading_decision call: inputs, locals
                             \* and returned value
     partial |-> {},         \* ids of the open orders reported PARTIALLY_FILLED
     canceled_seen |-> FALSE, \* a CANCELED report has been handled
     cancel_own |-> FALSE,   \* the last CANCELED report was handled after the
                             \* cancel request of the command being handled
     order_commission |-> [i |-> 0, sum |-> 0], \* commission of the fills of
                             \* the order of the last fill report
     order_base |-> [i |-> 0, sum |-> 0], \* the part of it paid in the base
                             \* asset by BUY fills, in tenths of the asset
     bought_base_commission |-> 0, \* its value at the last BUY FILLED report
     session_commission |-> 0, \* commission of all fills handled
     reconnected |-> FALSE,  \* an iteration of the reconnect loop connected
     retried_after_success |-> FALSE, \* and a further iteration was run
     dropped |-> FALSE,      \* a balanceUpdate for an unknown asset was handled
     seeded |-> TRUE,        \* the mirror has been seeded from the REST data
     margin |-> None,        \* the last margin::trade call and what it did
     stop_loss |-> None,     \* the last order::place_stop_loss call and the
                             \* orders it sent
     fed |-> 0,              \* closed candles given to process_close_data
     signal |-> "None",      \* what the indicator function returned last
     macd_before |-> None,   \* macd_latest before the last closed candle
     unclosed |-> {},        \* where a candle that is not closed was skipped
     kline_tries |-> <<>>,   \* outcomes of ws_client.connect since the last Close
     slow_of_closes |-> MAData_new(0),  \* slow average of the closes fed (SpecTrend)
     fold |-> SeedBalances(remote_ad)] \* reference fold of the balance events

InitAccount(cfg, remote_ad) ==
    /\ pairs = cfg
    /\ chan = [m \in Managers |-> <<>>]
    /\ ot = [m \in Managers |-> OtIdle]
    /\ waiting = [m \in Managers |-> TRUE]
    /\ stop_percent = [m \in Managers |-> None]
    /\ ad = [m \in Managers |-> SeedBalances(remote_ad)]
    /\ positions = [m \in Managers |-> [s \in Symbols |-> None]]
    /\ et = [m \in Managers |-> EtInit]
    /\ log = [m \in Managers |-> LogInit(remote_ad)]

\* The trackers of the specifications that stream no candle: no confirmation
\* filter, no take-profit.
InitManagers(cfg, remote_ad) ==
    /\ InitAccount(cfg, remote_ad)
    /\ mt = [m \in Managers |-> MtInit(None, None, None)]

\* ------------------------------------------------ Spec: the cancel handshake
\* One pair; order thread and event thread of its AccountManager, commands
\* from spot_trade, and a stream carrying CANCELED and BUY FILLED reports and
\* balance snapshots.
HsRemote ==
    [a \in Assets |-> IF a = "USDT" THEN [free |-> 50000, locked |-> 0]
                      ELSE [free |-> 0, locked |-> 0]]
HsCommands ==
    {OrderMsg(1, pos, None, Some(2)) : pos \in {"Long", "Short"}}
HsReports ==
    {ExecutionReport(2, "XUSDT", "SELL", "STOP_LOSS_LIMIT", "CANCELED", 0, 0),
     ExecutionReport(1, "XUSDT", "BUY", "MARKET", "FILLED", 100, 5000)}
HsSnapshots ==
    {<<BalanceEntry("X", 100, 0), BalanceEntry("USDT", 0, 0)>>}

Init == InitManagers({1}, HsRemote)

spot_trade(m, om) ==
    /\ submit_order(m, om)
    /\ UNCHANGED <<mt, pairs, ot, waiting, stop_percent, ad, positions, et, log>>

OrderThread(m) ==
    \/ order_thread_recv(m)
    \/ \E r \in {"err", "none", "some"} : order_thread_get_open_orders(m, r)
    \/ \E ok \in BOOLEAN : order_thread_cancel_all_orders(m, ok)
    \/ order_thread_wait_loop(m)
    \/ order_thread_wait_timeout(m)
    \/ order_thread_balance(m)
    \/ order_thread_price(m, Some(5000))
    \/ order_thread_place(m, TRUE)

Next ==
    \/ \E om \in HsCommands : spot_trade(1, om)
    \/ OrderThread(1)
    \/ \E r \in HsReports : event_thread_executionReport(1, r)
    \/ \E B \in HsSnapshots : event_thread_outboundAccountPosition(1, B)
    \/ event_thread_snapshot_balance(1, TRUE)
    \/ event_thread_snapshot_done(1)

Spec == Init /\ [][Next]_vars


\* ------------------------------------------- SpecPairs: two configured pairs
\* run_strategy spawns process_market_data_thread once per configured pair and
\* each calls AccountManager::new with a clone of the same ExchangeConfig: one
\* order thread and one command channel per pair, all on the same account.
\* No user-data event arrives in this specification.
PairCommands(m) ==
    {OrderMsg(m, pos, None, None) : pos \in {"Long", "Short"}}

InitPairs ==
    InitManagers({1, 2},
        [a \in Assets |-> IF a = "USDT" THEN [free |-> 50000, locked |-> 0]
                          ELSE [free |-> 0, locked |-> 0]])

NextPairs ==
    \E m \in {1, 2} :
        \/ \E om \in PairCommands(m) : spot_trade(m, om)
        \/ OrderThread(m)

SpecPairs == InitPairs /\ [][NextPairs]_vars

\* ------------------------------- SpecEvents: the account stream of one pair
\* Order thread and event thread of one AccountManager.  The user-data stream
\* carries the reports of every order of the account: here the entry order
\* and the stop order of the pair and a sell order of another pair.  No order
\* is open when a command is handled.
EvReports ==
    {ExecutionReport(1, "XUSDT", "BUY", "LIMIT", X, 100, 5000) :
        X \in {"PARTIALLY_FILLED", "FILLED"}}
    \cup {ExecutionReport(2, "XUSDT", "SELL", "STOP_LOSS_LIMIT", X, 100, 5000) :
        X \in {"CANCELED", "FILLED"}}
    \cup {ExecutionReport(3, "YUSDT", "SELL", "LIMIT", "PARTIALLY_FILLED", 100, 5000)}
EvSnapshots ==
    {<<BalanceEntry("X", 100, 0), BalanceEntry("USDT", 0, 0)>>}

\* The Long command with a 2% stop that spot_trade sends in the
\* specifications below.
LongStopMsg == OrderMsg(1, "Long", None, Some(2))

NextEvents ==
    \/ spot_trade(1, LongStopMsg)
    \/ order_thread_recv(1)
    \/ order_thread_get_open_orders(1, "none")
    \/ order_thread_balance(1)
    \/ order_thread_price(1, Some(5000))
    \/ \E ok \in BOOLEAN : order_thread_place(1, ok)
    \/ \E r \in EvReports : event_thread_executionReport(1, r)
    \/ \E B \in EvSnapshots : event_thread_outboundAccountPosition(1, B)
    \/ event_thread_snapshot_balance(1, TRUE)
    \/ event_thread_snapshot_done(1)

SpecEvents == Init /\ [][NextEvents]_vars

\* ------------------------------ SpecCancel: entries of two pairs and a cancel
\* As SpecEvents, with a stream that reports the entry orders of two pairs
\* filled and the stop order of the first pair filled or canceled.
CnReports ==
    {ExecutionReport(1, "XUSDT", "BUY", "LIMIT", "FILLED", 100, 5000),
     ExecutionReport(2, "XUSDT", "SELL", "STOP_LOSS_LIMIT", "CANCELED", 100, 5000),
     ExecutionReport(2, "XUSDT", "SELL", "STOP_LOSS_LIMIT", "FILLED", 100, 5000),
     ExecutionReport(4, "YUSDT", "BUY", "LIMIT", "FILLED", 100, 5000)}

NextCancel ==
    \/ spot_trade(1, LongStopMsg)
    \/ order_thread_recv(1)
    \/ order_thread_get_open_orders(1, "none")
    \/ order_thread_balance(1)
    \/ order_thread_price(1, Some(5000))
    \/ \E ok \in BOOLEAN : order_thread_place(1, ok)
    \/ \E r \in CnReports : event_thread_executionReport(1, r)
    \/ \E B \in EvSnapshots : event_thread_outboundAccountPosition(1, B)
    \/ event_thread_snapshot_balance(1, TRUE)
    \/ event_thread_snapshot_done(1)

SpecCancel == Init /\ [][NextCancel]_vars

\* --------------------------------------- SpecBalance: the balance events
\* The event thread of one AccountManager fed with balanceUpdate and
\* outboundAccountPosition events only, from every REST seed of BalRemotes.
BalAssets == {"X", "USDT"}
BalRemotes ==
    {[a \in Assets |-> IF a \in BalAssets THEN [free |-> f[a], locked |-> l[a]]
                       ELSE [free |-> 0, locked |-> 0]] :
        f \in [BalAssets -> {0, 1}], l \in [BalAssets -> {0, 1}]}
BalEntries ==
    {BalanceEntry(a, f, l) : a \in BalAssets, f \in {0, 1}, l \in {0, 1}}
BalSnapshots ==
    {<<b>> : b \in BalEntries} \cup {<<b, c>> : b \in BalEntries, c \in BalEntries}

InitBalance == \E remote_ad \in BalRemotes : InitManagers({1}, remote_ad)

NextBalance ==
    \/ \E a \in BalAssets, d \in {-1, 1} : event_thread_balanceUpdate(1, a, d)
    \/ \E B \in BalSnapshots : event_thread_outboundAccountPosition(1, B)
    \/ event_thread_snapshot_balance(1, TRUE)
    \/ event_thread_snapshot_done(1)

SpecBalance == InitBalance /\ [][NextBalance]_vars

\* ------------------------------------------ SpecMD: decisions of one tracker
\* One configured pair, X/USDT or the leveraged token ZUP/USDT, with every
\* configuration of confirmation candles (none or 1..MaxK) and take-profit
\* (none or 5%).  The warm-up ended on a close of 105.00; the live stream
\* delivers closed candles around the take-profit level of an entry at
\* 100.00; the account stream reports the pair's entry order and exit order
\* filled.  The order thread consumes the commands; no order is open and the
\* price lookup of a MARKET command fails, which ends the command.
MdCloses == {10499, 10500, 10501}
MdReports(m) ==
    {ExecutionReport(1, PairSymbol(m), "BUY", "MARKET", "FILLED", 100, 10000),
     ExecutionReport(2, PairSymbol(m), "SELL", "MARKET", "FILLED", 100, 10500)}

InitMD ==
    \E p \in {1, 3} :
    \E K \in {None} \cup {Some(k) : k \in 1..MaxK} :
    \E t \in {None, Some(5)} :
        /\ InitAccount({p}, HsRemote)
        /\ mt = [m \in Managers |-> MtInit(K, t, Some(10500))]

NextMD ==
    \/ \E m \in Managers, sig \in {"None", "Long", "Short"}, c \in MdCloses :
          process_close_data(m, sig, c)
    \/ \E m \in Managers : order_thread_recv(m)
    \/ \E m \in Managers : order_thread_get_open_orders(m, "none")
    \/ \E m \in Managers : order_thread_balance(m)
    \/ \E m \in Managers : order_thread_price(m, None)
    \/ \E m \in Managers : \E r \in MdReports(m) : event_thread_executionReport(m, r)

SpecMD == InitMD /\ [][NextMD]_vars

\* One pair X/USDT: Long commands with stop percent 2 through the order
\* thread (no open order, price 100.00), BUY FILLED reports of 10 X at 100.00
\* and of 1 X at 10.00, the balance snapshot that follows, and the exchange
\* accepting or refusing the stop order; an order is reported FILLED once, so
\* the same report does not come twice in a row.  Beside it the stop of
\* order::place_stop_loss for a fill of 10 X at 100.00.
\* BUY order 6 filled at once, 10 X at 5.00, with a commission of 0.1 X.
StBaseFill ==
    ExecutionReportN(6, "XUSDT", "BUY", "MARKET", "FILLED", 100, 500, 1, "X", None)
StReports ==
    {ExecutionReport(1, "XUSDT", "BUY", "MARKET", "FILLED", 100, 10000),
     ExecutionReport(3, "XUSDT", "BUY", "MARKET", "FILLED", 10, 1000),
     ExecutionReport(4, "XUSDT", "SELL", "MARKET", "FILLED", 100, 10000),
     StBaseFill}
StFills ==
    {Fill(10000, 100, 0, "USDT"), Fill(10000, 100, 1, "X")}

NextStop ==
    \/ spot_trade(1, LongStopMsg)
    \/ order_thread_recv(1)
    \/ order_thread_get_open_orders(1, "none")
    \/ order_thread_balance(1)
    \/ order_thread_price(1, Some(10000))
    \/ \E ok \in BOOLEAN : order_thread_place(1, ok)
    \/ \E r \in StReports :
          log[1].last # Some(r) /\ event_thread_executionReport(1, r)
    \/ \E B \in HsSnapshots : event_thread_outboundAccountPosition(1, B)
    \/ \E ok \in BOOLEAN : event_thread_snapshot_balance(1, ok)
    \/ event_thread_snapshot_done(1)
    \/ \E f \in StFills, ok \in BOOLEAN : bvlt_place_stop_loss(1, f, 2, ok)

SpecStop == Init /\ [][NextStop]_vars

\* Order sizing: one pair X/USDT seeded with 9.99, 123.45 or 500.00 USDT and
\* 0, 3.7 or 10.5 X; Long and Short MARKET commands with every percentage
\* variant of OrderQuantity (PercentageAmount 0, 33, 100 and 101); no open
\* order; the price lookup answers 10.00 or 33.00.
QtyQuantities ==
    {OrderQuantity("PercentageAmount", q) : q \in {0, 33, 100, 101}}
    \cup {OrderQuantity(k, 0) :
            k \in {"Percentage25", "Percentage50", "Percentage75", "Percentage100"}}
QtyRemotes ==
    {[a \in Assets |-> IF a = "USDT" THEN [free |-> u, locked |-> 0]
                       ELSE IF a = "X" THEN [free |-> x, locked |-> 0]
                       ELSE [free |-> 0, locked |-> 0]] :
        u \in {999, 12345, 50000}, x \in {0, 37, 105}}

QtyMsgs ==
    {OrderMsgQ(1, pos, q, None, None) : pos \in {"Long", "Short"}, q \in QtyQuantities}

InitQty == \E remote_ad \in QtyRemotes : InitManagers({1}, remote_ad)

NextQty ==
    \/ \E msg \in QtyMsgs : spot_trade(1, msg)
    \/ order_thread_recv(1)
    \/ order_thread_get_open_orders(1, "none")
    \/ order_thread_balance(1)
    \/ \E c \in {1000, 3300} : order_thread_price(1, Some(c))
    \/ \E ok \in BOOLEAN : order_thread_place(1, ok)

SpecQty == InitQty /\ [][NextQty]_vars

\* AccountManager::new for the pair X/USDT: the event thread starts with an
\* empty mirror and goes through the REST snapshot, the listen key and the
\* stream connection, each of which may fail, while new waits at the barrier.
\* Once new has returned, commands are submitted and the order thread reads
\* the mirror; balanceUpdate events arrive on the stream.
InitStart ==
    /\ pairs = {}
    /\ chan = [m \in Managers |-> <<>>]
    /\ ot = [m \in Managers |-> OtIdle]
    /\ waiting = [m \in Managers |-> TRUE]
    /\ stop_percent = [m \in Managers |-> None]
    /\ ad = [m \in Managers |-> [a \in Assets |-> None]]
    /\ positions = [m \in Managers |-> [s \in Symbols |-> None]]
    /\ et = [m \in Managers |-> EtStart]
    /\ mt = [m \in Managers |-> MtInit(None, None, None)]
    /\ log = [m \in Managers |->
                [LogInit(HsRemote) EXCEPT !.fold = [a \in Assets |-> None],
                                          !.seeded = FALSE]]

\* ---------------------------------------- SpecOrder: the order pipeline alone
\* The order thread of X/USDT with Market and Limit commands in both
\* directions; every REST call may fail.  The event thread handles nothing
\* here, so a cancellation wait always ends by timeout.
OrdMsgs ==
    {OrderMsg(1, pos, lp, stp) :
        pos \in {"Long", "Short"}, lp \in {None, Some(1000)}, stp \in {None, Some(2)}}

NextOrder ==
    \/ \E msg \in OrdMsgs : spot_trade(1, msg)
    \/ order_thread_recv(1)
    \/ \E r \in {"err", "none", "some"} : order_thread_get_open_orders(1, r)
    \/ \E ok \in BOOLEAN : order_thread_cancel_all_orders(1, ok)
    \/ order_thread_wait_loop(1)
    \/ order_thread_wait_timeout(1)
    \/ order_thread_balance(1)
    \/ \E r \in {None, Some(1000), Some(3300)} : order_thread_price(1, r)
    \/ \E ok \in BOOLEAN : order_thread_place(1, ok)

SpecOrder == InitQty /\ [][NextOrder]_vars

StartMsgs == {OrderMsg(1, pos, None, None) : pos \in {"Long", "Short"}}

NextStart ==
    \/ \E remote_ad \in BalRemotes, ok \in BOOLEAN :
          event_thread_get_account_data(1, remote_ad, ok)
    \/ \E ok \in BOOLEAN : event_thread_create_listen_key(1, ok)
    \/ \E ok \in BOOLEAN : event_thread_connect_stream(1, ok)
    \/ event_thread_barrier_wait(1)
    \/ event_thread_barrier_return(1)
    \/ AccountManager_new_wait(1)
    \/ AccountManager_new_return(1)
    \/ \E msg \in StartMsgs : spot_trade(1, msg)
    \/ order_thread_recv(1)
    \/ order_thread_get_open_orders(1, "none")
    \/ order_thread_balance(1)
    \/ order_thread_price(1, None)
    \/ \E a \in BalAssets, d \in {-1, 1} : event_thread_balanceUpdate(1, a, d)

SpecStart == InitStart /\ [][NextStart]_vars

\* Fills of BUY LIMIT order 5 on X/USDT whose commission of 0.1 BNB cannot be
\* converted: bex.get_price("BNBUSDT") fails.
CmFailed ==
    {ExecutionReportN(5, "XUSDT", "BUY", "LIMIT", "PARTIALLY_FILLED", 50, 10000,
                      1, "BNB", None),
     ExecutionReportN(5, "XUSDT", "BUY", "LIMIT", "FILLED", 100, 10000,
                      1, "BNB", None)}

\* Commission bookkeeping of the event thread: a BUY LIMIT order 1 on X/USDT
\* filled in parts (commissions 0.10 USDT, then 0.20 USDT), a SELL order 2
\* filled at once with a commission of 0.002 X at 105.00 (0.21 USDT) and a
\* SELL order 3 whose commission of 0.1 BNB is converted at 1.50 USDT, or not
\* converted when the price lookup fails.
CmReports ==
    {ExecutionReportN(1, "XUSDT", "BUY", "LIMIT", "PARTIALLY_FILLED", 50, 10000,
                      10, "USDT", None),
     ExecutionReportN(1, "XUSDT", "BUY", "LIMIT", "FILLED", 100, 10000,
                      20, "USDT", None),
     ExecutionReportN(2, "XUSDT", "SELL", "MARKET", "FILLED", 100, 10500,
                      2, "X", None),
     ExecutionReportN(3, "XUSDT", "SELL", "MARKET", "FILLED", 100, 10500,
                      1, "BNB", Some(150)),
     ExecutionReportN(3, "XUSDT", "SELL", "MARKET", "FILLED", 100, 10500,
                      1, "BNB", None),
     ExecutionReport(4, "XUSDT", "SELL", "STOP_LOSS_LIMIT", "CANCELED", 0, 0)}

NextComm ==
    \/ \E r \in CmReports : event_thread_executionReport(1, r)
    \/ \E B \in HsSnapshots : event_thread_outboundAccountPosition(1, B)
    \/ event_thread_snapshot_balance(1, TRUE)
    \/ event_thread_snapshot_done(1)

SpecComm == Init /\ [][NextComm]_vars

\* The same bookkeeping when the price of the commission asset cannot be
\* fetched: a fill of order 1 with a commission in USDT, the fills of order 5
\* and the SELL order 3, whose commissions in BNB are not converted.
CfReports ==
    {ExecutionReportN(1, "XUSDT", "BUY", "LIMIT", "PARTIALLY_FILLED", 50, 10000,
                      10, "USDT", None),
     ExecutionReportN(3, "XUSDT", "SELL", "MARKET", "FILLED", 100, 10500,
                      1, "BNB", None)}
        \cup CmFailed

NextCommFail ==
    \/ \E r \in CfReports : event_thread_executionReport(1, r)
    \/ \E B \in HsSnapshots : event_thread_outboundAccountPosition(1, B)
    \/ event_thread_snapshot_balance(1, TRUE)
    \/ event_thread_snapshot_done(1)

SpecCommFail == Init /\ [][NextCommFail]_vars

\* margin::trade for one message on the pair X/USDT (min_notional 10.00): the
\* price lookup fails or answers 5.00 or 10.00; the account holds 0 or 10 X
\* and owes nothing, 0.1 X of interest, 0.5 X or 10 X; the closing order is
\* refused, accepted unfilled or filled, the repay succeeds or fails; the
\* second account lookup fails or shows 5.00 or 500.00 USDT of collateral at
\* an index price of 10.00; the entry order is refused, accepted or filled;
\* with and without leverage 3, MARKET orders or LIMIT orders 2 ticks off a
\* close of 10.00.
MgAds ==
    {MarginAd(free, borrowed, interest, 50000, 50000, 1000) :
        free \in {0, 100}, borrowed \in {0, 5, 100}, interest \in {0, 1}}
MgAnswers ==
    {OrdErr(-1100), OrdErr(InsufficientBalance), OrdOk("NEW", None),
     OrdOk("FILLED", Some(Fill(1000, 100, 0, "USDT")))}
MgInputs ==
    [price : {None, Some(500), Some(1000)},
     ad1 : {None} \cup {Some(a) : a \in MgAds},
     close : MgAnswers,
     repay : {0, -3041},
     ad2 : {None, Some(MarginAd(0, 0, 0, 500, 500, 1000)),
            Some(MarginAd(0, 0, 0, 50000, 50000, 1000))},
     entry : MgAnswers \ {OrdErr(InsufficientBalance)},
     leverage : {None, Some(3)},
     order_type : {"Market", "Limit"},
     limit_offset : {2}, closing_price : {1000}, stop_percent : {2}]

NextMargin ==
    /\ log[1].margin = None
    /\ \E ta \in {"Long", "Short"}, x \in MgInputs : trade_thread_margin(1, ta, x)

SpecMargin == Init /\ [][NextMargin]_vars

\* The user-data stream of one AccountManager: balanceUpdate events, and a
\* Close message followed by the reconnect loop, in which each REST call and
\* the connection may succeed or fail.
NextReconnect ==
    \/ \E a \in BalAssets, d \in {-1, 1} : event_thread_balanceUpdate(1, a, d)
    \/ event_thread_Close(1)
    \/ \E del_ok \in BOOLEAN, create_ok \in BOOLEAN, conn_ok \in BOOLEAN :
          event_thread_reconnect(1, del_ok, create_ok, conn_ok)
    \/ event_thread_reconnect_done(1)

SpecReconnect == InitBalance /\ [][NextReconnect]_vars

\* One pair X/USDT trading on TradeSignal::MaCross with simple or exponential
\* averages, a fast window of 1..MaxWindow and a slow window of 0..MaxWindow
\* candles (0 is an absent SlowMA).  The historical klines and then the live
\* stream deliver closes of 1.00, 1.02 and 1.05.  The order thread consumes
\* the commands; no order is open and the price lookup fails.
MaCloses == {100, 102, 105}

InitMA ==
    \E f \in 1..MaxWindow :
    \E s \in 0..MaxWindow :
    \E e \in BOOLEAN :
        /\ InitAccount({1}, HsRemote)
        /\ mt = [m \in Managers |->
                    [MtInit(None, None, None) EXCEPT
                        !.slow_ma_data = MAData_new(s),
                        !.fast_ma_data = MAData_new(f),
                        !.ema = e,
                        !.live = FALSE]]

NextMA ==
    \/ \E m \in Managers, c \in MaCloses : warmup_close_data(m, c)
    \/ \E m \in Managers : connect_kline_stream(m)
    \/ \E m \in Managers, c \in MaCloses : process_close_data_MaCross(m, c)
    \/ \E m \in Managers : order_thread_recv(m)
    \/ \E m \in Managers : order_thread_get_open_orders(m, "none")
    \/ \E m \in Managers : order_thread_balance(m)
    \/ \E m \in Managers : order_thread_price(m, None)

SpecMA == InitMA /\ [][NextMA]_vars

\* The candles of SpecMA with their closed flags: klines of the stream that
\* are closed or still forming, and historical sticks that close before, at
\* or after the server time 5.
CdKlines == {Kline(c, x) : c \in MaCloses, x \in BOOLEAN}
CdSticks == {Stick(c, t) : c \in MaCloses, t \in {4, 5, 6}}

NextCandles ==
    \/ \E stick \in CdSticks : history_candle(1, 5, stick)
    \/ connect_kline_stream(1)
    \/ \E k \in CdKlines : kline_message(1, k)
    \/ order_thread_recv(1)
    \/ order_thread_get_open_orders(1, "none")
    \/ order_thread_balance(1)
    \/ order_thread_price(1, None)

SpecCandles == InitMA /\ [][NextCandles]_vars

\* Warm-up and stream of one MaCross tracker (fast window 1, slow window 2)
\* with no confirmation filter or with 1 or 2 confirmation candles: the two
\* historical sticks, closed or not, then the klines of the stream.
InitWarmup ==
    \E K \in {None, Some(1), Some(2)} :
        /\ InitAccount({1}, HsRemote)
        /\ mt = [m \in Managers |->
                    [MtInit(K, None, None) EXCEPT
                        !.slow_ma_data = MAData_new(2),
                        !.fast_ma_data = MAData_new(1),
                        !.live = FALSE]]

NextWarmup ==
    \/ \E stick \in CdSticks : history_candle(1, 5, stick)
    \/ connect_kline_stream(1)
    \/ \E k \in CdKlines : kline_message(1, k)
    \/ order_thread_recv(1)
    \/ order_thread_get_open_orders(1, "none")
    \/ order_thread_balance(1)
    \/ order_thread_price(1, None)

SpecWarmup == InitWarmup /\ [][NextWarmup]_vars

\* The kline stream of one MaCross tracker (fast window 1, slow window 2)
\* that is closed by the exchange at any time; every connection attempt may
\* fail.
InitKline ==
    /\ InitAccount({1}, HsRemote)
    /\ mt = [m \in Managers |->
                [MtInit(None, None, None) EXCEPT
                    !.slow_ma_data = MAData_new(2),
                    !.fast_ma_data = MAData_new(1),
                    !.live = FALSE]]

NextKline ==
    \/ \E c \in MaCloses : history_close_data(1, c)
    \/ connect_kline_stream(1)
    \/ \E k \in CdKlines : kline_message(1, k)
    \/ kline_Close(1)
    \/ \E ok \in BOOLEAN : reconnect_stream(1, ok)
    \/ order_thread_recv(1)
    \/ order_thread_get_open_orders(1, "none")
    \/ order_thread_balance(1)
    \/ order_thread_price(1, None)

SpecKline == InitKline /\ [][NextKline]_vars

\* One pair X/USDT trading on TradeSignal::MaTrendReversal with simple or
\* exponential averages, a fast window of 1..2 and a slow window of
\* 2..MaxWindow candles.  The historical klines and then the live stream
\* deliver closes of 1.00, 1.02 and 1.05.
InitTrend ==
    \E f \in 1..2 :
    \E s \in 2..MaxWindow :
    \E e \in BOOLEAN :
        /\ pairs = {1}
        /\ chan = [m \in Managers |-> <<>>]
        /\ ot = [m \in Managers |-> OtIdle]
        /\ waiting = [m \in Managers |-> TRUE]
        /\ stop_percent = [m \in Managers |-> None]
        /\ ad = [m \in Managers |-> SeedBalances(HsRemote)]
        /\ positions = [m \in Managers |-> [sy \in Symbols |-> None]]
        /\ et = [m \in Managers |-> EtInit]
        /\ mt = [m \in Managers |->
                    [MtInit(None, None, None) EXCEPT
                        !.trade_signal = "MaTrendReversal",
                        !.slow_ma_data = MAData_new(s),
                        !.fast_ma_data = MAData_new(f),
                        !.ema = e,
                        !.live = FALSE]]
        /\ log = [m \in Managers |->
                    [LogInit(HsRemote) EXCEPT !.slow_of_closes = MAData_new(s)]]

NextTrend ==
    \/ \E c \in MaCloses : history_close_data(1, c)
    \/ connect_kline_stream(1)
    \/ \E c \in MaCloses : stream_close_data(1, c)

SpecTrend == InitTrend /\ [][NextTrend]_vars

\* The tracker after the for loop over n historical klines that all closed
\* at closing_price (lines 388-409).
RECURSIVE AfterHistory(_, _, _)
AfterHistory(tr, closing_price, n) ==
    IF n = 0 THEN tr
    ELSE [ComputeIndicators(AfterHistory(tr, closing_price, n - 1), closing_price)
             EXCEPT !.prev_closing_price = Some(closing_price)]

\* One pair X/USDT trading on TradeSignal::MACD, with no trend average or a
\* trend average of 3 candles (simple or exponential) and SlowMA = 30.  The
\* 30 historical klines all closed at 100.00 and the thread has switched to
\* the live stream, which delivers closes of 90.00, 100.00 and 110.00.
MacdCloses == {9000, 10000, 11000}

MacdTracker(t, e) ==
    [MtInit(None, None, None) EXCEPT
        !.trade_signal = "MACD",
        !.slow_ma_data = MAData_new(30),
        !.macd_trend_ma = MAData_new(t),
        !.ema = e,
        !.live = FALSE]

InitMACD ==
    \E t \in {0, 3} :
    \E e \in BOOLEAN :
    \E n \in {historical_candles_required(MacdTracker(t, e))} :
        /\ pairs = {1}
        /\ chan = [m \in Managers |-> <<>>]
        /\ ot = [m \in Managers |-> OtIdle]
        /\ waiting = [m \in Managers |-> TRUE]
        /\ stop_percent = [m \in Managers |-> None]
        /\ ad = [m \in Managers |-> SeedBalances(HsRemote)]
        /\ positions = [m \in Managers |-> [s \in Symbols |-> None]]
        /\ et = [m \in Managers |-> EtInit]
        /\ mt = [m \in Managers |->
                    [AfterHistory(MacdTracker(t, e), 10000, n) EXCEPT !.live = TRUE]]
        /\ log = [m \in Managers |->
                    [LogInit(HsRemote) EXCEPT
                        !.fed = n,
                        !.macd_before =
                            AfterHistory(MacdTracker(t, e), 10000, n - 1).macd.macd_latest]]

NextMACD ==
    \/ \E c \in MacdCloses : stream_close_data(1, c)
    \/ order_thread_recv(1)
    \/ order_thread_get_open_orders(1, "none")
    \/ order_thread_balance(1)
    \/ order_thread_price(1, None)

SpecMACD == InitMACD /\ [][NextMACD]_vars

\* The timed wait returns and the order thread is scheduled: wait_timeout
\* returns after 5 s at the latest, and the event thread holds the handshake
\* mutex only for the three statements of its acknowledgement.
FairSpec ==
    Spec /\ WF_vars(order_thread_wait_loop(1)) /\ WF_vars(order_thread_wait_timeout(1))

\* The mutex waits of the event thread.  In an iteration of the snapshot loop
\* it holds the ad guard (line 443) and, with buy_is_filled, locks stop_percent
\* (line 464); after the loop, with cancelled_order, it locks the handshake
\* mutex (line 484).
EtWaitsForStopLock(m) ==
    /\ et[m].pc = "snap" /\ et[m].i <= Len(et[m].B)
    /\ et[m].buy_is_filled /\ StopLockHeldByOrder(m)
EtWaitsForCvLock(m) ==
    /\ et[m].pc = "snap" /\ et[m].i > Len(et[m].B)
    /\ AckCond(et[m]) /\ CvLockHeldByOrder(m)
\* The order thread locks ad for the balance read only (line 181); the event
\* thread keeps its ad guard while it waits for stop_percent.
OtWaitsForAdLock(m) == ot[m].pc = "balance" /\ EtWaitsForStopLock(m)

\* The scheduler runs a thread that can run: the REST calls of the order
\* thread return, and a thread parked in Mutex::lock is woken when the mutex
\* is released (the timed wait leaves it free for up to 5 s at a time).
FairLocks ==
    /\ FairSpec
    /\ WF_vars(\E ok \in BOOLEAN : order_thread_cancel_all_orders(1, ok))
    /\ WF_vars(order_thread_place(1, TRUE))
    /\ SF_vars(event_thread_snapshot_done(1))

\* Start-up under a scheduler that runs every thread that can run: the REST
\* calls and the stream connection of the event thread return (Ok or Err),
\* and a thread whose barrier wait can return does return.
FairStart ==
    /\ SpecStart
    /\ WF_vars(\E remote_ad \in BalRemotes, ok \in BOOLEAN :
                  event_thread_get_account_data(1, remote_ad, ok))
    /\ WF_vars(\E ok \in BOOLEAN : event_thread_create_listen_key(1, ok))
    /\ WF_vars(\E ok \in BOOLEAN : event_thread_connect_stream(1, ok))
    /\ WF_vars(event_thread_barrier_wait(1))
    /\ WF_vars(event_thread_barrier_return(1))
    /\ WF_vars(AccountManager_new_wait(1))
    /\ WF_vars(AccountManager_new_return(1))

\* -------------------------------------------------------------- properties

\* C1: the cancel wait is bounded.  In the wait the order thread has done at
\* most 4 timed waits; it leaves the wait only for the balance read of the
\* same command, with the flag reset (by itself when nobody acknowledged);
\* and once in the wait it always reaches the balance read.
C1_CancelWaitBounded ==
    /\ [](/\ ot[1].pc = "wait" => ot[1].retry <= CANCEL_WAIT_RETRIES
          /\ ot[1].pc = "blocked" => ot[1].retry < CANCEL_WAIT_RETRIES)
    /\ [][(ot[1].pc = "wait" /\ ot'[1].pc \notin {"wait", "blocked"}) =>
             /\ ot'[1].pc = "balance"
             /\ ot'[1].msg = ot[1].msg
             /\ ~waiting'[1]
             /\ (waiting[1] => (log'[1].gave_up /\ ot[1].retry = CANCEL_WAIT_RETRIES))]_vars
    /\ (ot[1].pc \in {"wait", "blocked"}) ~> (ot[1].pc = "balance")

\* C1 witness: four timed waits went by unacknowledged, the order thread gave
\* up, reset the flag and is at the balance read of its command.
C1_Witness ==
    /\ ot[1].pc = "balance"
    /\ ot[1].retry = CANCEL_WAIT_RETRIES
    /\ log[1].gave_up
    /\ ~waiting[1]
    /\ ot[1].msg # NoMsg

C3_OnePlacementPerAccount ==
    Cardinality({m \in pairs : ot[m].pc = "place"}) <= 1

\* C4: a stop order is sent only once every balance of the snapshot that
\* follows the BUY FILLED report has been written to the balance mirror.
C4_StopAfterWholeSnapshot ==
    \A j \in 1..Len(log[1].stops) : log[1].stops[j].unwritten = 0

\* C5: after a BUY FILLED report (the order filled by that single fill) for
\* quantity q at price p on symbol X and then a balance snapshot, with a stop
\* percent recorded, the position mirror holds {X, Long, q, p} and exactly one
\* stop-limit SELL order for X has been sent.
C5_EntryEndToEnd ==
    (log[1].trail = "buy_snap" /\ log[1].single /\ log[1].stp_at_buy) =>
        LET r == Unwrap(log[1].last) IN
        /\ positions[1][r.s] = Some([type |-> "Long", qty |-> r.z, price |-> r.L])
        /\ Len(log[1].stops) = 1
        /\ log[1].stops[1].order.symbol = r.s
        /\ log[1].stops[1].order.type = "STOP_LOSS_LIMIT"
        /\ log[1].stops[1].order.side = "SELL"

\* C6: once a CANCELED report for the stop order sent for symbol X has been
\* handled, the position mirror has no entry for X; and once the balance
\* snapshot after it has been applied too, the cancel-wait flag is cleared.
C6_CancelEndToEnd ==
    /\ (log[1].trail \in {"canceled", "canceled_snap"} /\ log[1].stop_canceled) =>
            positions[1][Unwrap(log[1].last).s] = None
    /\ (log[1].trail = "canceled_snap" /\ log[1].stop_canceled) => ~waiting[1]

\* C7: for every sequence of balanceUpdate and outboundAccountPosition events
\* the balance mirror equals the reference fold of the events processed so
\* far, starting from the REST seed: between events the two are equal, and
\* inside a snapshot the mirror is the fold plus the entries written so far.
C7_BalanceFold ==
    /\ et[1].pc = "recv" => ad[1] = log[1].fold
    /\ et[1].pc = "snap" =>
          ad[1] = FoldSnapshot(log[1].fold, SubSeq(et[1].B, 1, et[1].i - 1))

C7_Witness ==
    /\ et[1].pc = "recv"
    /\ ad[1]["X"] = Some([free |-> MaxBal, locked |-> 1])
    /\ ad[1]["USDT"] = Some([free |-> 0, locked |-> 0])

\* C8: with a confirmation filter configured, trading_decision returns Long
\* or Short (and an order command is enqueued) only if the signal is
\* confirmed by the filter or the take-profit override is active.
C8_DecisionGate ==
    \A m \in pairs :
        (IsSome(log[m].decision) /\ IsSome(mt[m].confirmation_candles)) =>
            LET d == Unwrap(log[m].decision) IN
            (d.returned # "None" \/ d.enqueued) =>
                (d.confirmed \/ d.take_profit_override)

\* C9: with K confirmation candles a Long signal is confirmed only if at
\* least K candle colours have been recorded and the last K are all green,
\* a Short signal only if the last K are all red.
C9_ConfirmationK ==
    \A m \in pairs :
        (IsSome(log[m].decision) /\ IsSome(mt[m].confirmation_candles)) =>
            LET d == Unwrap(log[m].decision)
                K == Unwrap(mt[m].confirmation_candles)
                w == log[m].pushed
                LastK(color) ==
                    /\ Len(w) >= K
                    /\ \A j \in (Len(w) - K + 1)..Len(w) : w[j] = color
            IN /\ (d.sig = "Long" /\ d.confirmed) => LastK("GREEN")
               /\ (d.sig = "Short" /\ d.confirmed) => LastK("RED")

\* C10: with take-profit t% configured and a Long position held at entry
\* price e, trading_decision returns Short whenever close >= e*(1+t/100),
\* whatever the signal and the confirmation state, and below that level the
\* override is inactive: the signal alone decides (no signal gives None).
C10_TakeProfit ==
    \A m \in pairs :
        (/\ IsSome(log[m].decision)
         /\ IsSome(mt[m].take_profit_percent)
         /\ IsSome(Unwrap(log[m].decision).cur_position)
         /\ Unwrap(Unwrap(log[m].decision).cur_position)[1] = "Long") =>
            LET d == Unwrap(log[m].decision)
                e == Unwrap(d.cur_position)[3]
                t == Unwrap(mt[m].take_profit_percent)
            IN IF 100 * d.closing_price >= e * (100 + t)
               THEN d.returned = "Short"
               ELSE /\ ~d.take_profit_override
                    /\ d.returned = (IF d.sig = "Long" THEN "None" ELSE d.sig)

\* C10 (amended): the same for a pair that is not a leveraged token; for a
\* leveraged-token pair trading_decision returns None for every candle.
C10_TakeProfitSpotPair ==
    \A m \in pairs :
        IsSome(log[m].decision) =>
            LET d == Unwrap(log[m].decision) IN
            IF get_bvlt_type(m) = None
            THEN (/\ IsSome(mt[m].take_profit_percent)
                  /\ IsSome(d.cur_position)
                  /\ Unwrap(d.cur_position)[1] = "Long") =>
                     LET e == Unwrap(d.cur_position)[3]
                         t == Unwrap(mt[m].take_profit_percent)
                     IN IF 100 * d.closing_price >= e * (100 + t)
                        THEN d.returned = "Short"
                        ELSE /\ ~d.take_profit_override
                             /\ d.returned = (IF d.sig = "Long" THEN "None" ELSE d.sig)
            ELSE d.returned = "None"

C10_Witness ==
    /\ 1 \in pairs
    /\ IsSome(log[1].decision)
    /\ mt[1].take_profit_percent = Some(5)
    /\ IsSome(mt[1].confirmation_candles)
    /\ Unwrap(log[1].decision).cur_position = Some(<<"Long", 100, 10000>>)
    /\ Unwrap(log[1].decision).closing_price = 10501
    /\ Unwrap(log[1].decision).sig = "None"
    /\ ~Unwrap(log[1].decision).confirmed
    /\ Unwrap(log[1].decision).returned = "Short"
    /\ chan[1] # <<>>

\* C11: the cross signal is never produced while the fast or the slow moving
\* average has been fed fewer closes than its window: whenever
\* trading_decision_ma_cross returned, or would return on the tracker as it
\* is, Long or Short, both windows are configured and both averages have been
\* fed at least their window of closes.
C11_CrossNeedsWarmup ==
    \A m \in pairs :
        (\/ log[m].signal # "None"
         \/ trading_decision_ma_cross(m, mt[m], 0) # "None")
        => /\ mt[m].fast_ma_data.num_candles > 0
           /\ mt[m].slow_ma_data.num_candles > 0
           /\ log[m].fed >= mt[m].fast_ma_data.num_candles
           /\ log[m].fed >= mt[m].slow_ma_data.num_candles
C11_Witness ==
    \E m \in pairs :
        /\ log[m].signal = "Long"
        /\ mt[m].slow_ma_data.num_candles = MaxWindow
        /\ log[m].fed = MaxWindow

\* C12: stop prices armed after a BUY fill.  Every stop order sent has its
\* limit price one tick below its trigger price, and for a fill at 100.00
\* with stop percent 2 the trigger is 98.00 and the limit 97.99.
C12_StopPrices ==
    \A m \in pairs :
        /\ \A i \in 1..Len(log[m].stops) :
              LET s == log[m].stops[i] IN
              /\ s.order.price = s.order.stopPrice - get_tick_size(m)
              /\ (s.price_paid = 10000 /\ s.stop_percent = 2)
                    => s.order.stopPrice = 9800 /\ s.order.price = 9799
        /\ IsSome(log[m].stop_loss) =>
              LET c == Unwrap(log[m].stop_loss) IN
              /\ c.orders[1].price = c.orders[1].stopPrice - get_tick_size(m)
              /\ (c.fill.ave_price = 10000 /\ c.stop_percent = 2)
                    => c.orders[1].stopPrice = 9800 /\ c.orders[1].price = 9799

\* C13: stop-loss fallback.  Whenever the exchange refused a stop order armed
\* after a BUY fill, exactly one market SELL for the same quantity was sent
\* right after it.
C13_StopFallback ==
    \A m \in pairs :
        /\ \A i \in 1..Len(log[m].stops) :
              LET s == log[m].stops[i] IN
              ~s.ok => s.after_err = <<MarketSell(s.order.symbol, s.order.quantity)>>
        /\ IsSome(log[m].stop_loss) =>
              LET c == Unwrap(log[m].stop_loss) IN
              ~c.ok => c.orders = <<c.orders[1],
                                    MarketSell(c.orders[1].symbol,
                                               c.orders[1].quantity)>>

\* C14: every order sent is exchange-legal.  The orders of the order thread
\* and the stop orders of the event thread have a quantity floor-rounded to
\* the quantity decimals, prices floor-rounded to the price decimals, and a
\* value price * quantity of at least min_notional.
C14_OrdersLegal ==
    \A m \in pairs :
        /\ \A i \in 1..Len(log[m].placed) :
              LET o == log[m].placed[i] IN
              /\ o.qty = Floor(o.qty, get_qty_dps(m), 1)
              /\ o.price = Floor(o.price, get_price_dps(m), 2)
              /\ o.price * o.qty >= get_min_notional(m) * 10
        /\ \A i \in 1..Len(log[m].stops) :
              LET o == log[m].stops[i].order IN
              /\ o.quantity = Floor(o.quantity, get_qty_dps(m), 1)
              /\ o.price = Floor(o.price, get_price_dps(m), 2)
              /\ o.stopPrice = Floor(o.stopPrice, get_price_dps(m), 2)
              /\ o.price * o.quantity >= get_min_notional(m) * 10

C16_StartupRendezvous ==
    \A m \in Managers :
        /\ m \in pairs
              => /\ log[m].seeded
                 /\ et[m].conn
                 /\ et[m].pc \notin {"start", "listen_key", "connect",
                                     "panicked_start"}
        /\ m \notin pairs => chan[m] = <<>> /\ ot[m] = OtIdle
C16_Witness ==
    \E m \in pairs :
        /\ et[m].pc = "barrier"
        /\ ot[m].pc = "price"
        /\ ad[m]["USDT"] = Some([free |-> 1, locked |-> 1])

\* C17: at most one open position per symbol.  The event thread never
\* handles a BUY FILLED report for a symbol that has a Position entry: the
\* assertion before the insert (line 560) never fails.
C17_AssertNeverFails ==
    \A m \in pairs : et[m].pc # "panicked"

\* C18: partial fills are aggregated exactly.  When the BUY order has just
\* been reported FILLED the per-trade commission is the sum of the commissions
\* of its fills, and at any time the session cumulative commission is the sum
\* of the commissions of all fills handled, each counted once.
C18_CommissionExact ==
    \A m \in pairs :
        /\ (IsSome(log[m].last) /\ log[m].trail = "buy"
               /\ et[m].pc # "panicked")
              => et[m].trade_commission_usdt = Some(log[m].order_commission.sum)
        /\ et[m].cuml_commission = log[m].session_commission

\* C19: user-data stream reconnect.  After a Close message the event thread
\* makes at most 5 reconnect attempts; once an attempt has connected it makes
\* no further attempt and goes on consuming events on the new connection; the
\* thread terminates only when every attempt failed.
C19_Reconnect ==
    \A m \in pairs :
        /\ et[m].cur_try <= RECONNECT_TRIES
        /\ ~log[m].retried_after_success
        /\ et[m].pc = "terminated" => ~log[m].reconnected

\* C20: a balanceUpdate naming an asset that is not in the balance mirror is
\* dropped: the step creates no entry and changes no entry of the mirror, and
\* the event thread is back at receiving the next event.
C20_UnknownAssetDropped ==
    [][\A a \in Assets, d \in {-1, 1} :
          (event_thread_balanceUpdate(1, a, d) /\ ad[1][a] = None)
          => (ad' = ad /\ et'[1].pc = "recv")]_vars
C20_Witness ==
    /\ log[1].dropped
    /\ et[1].pc = "recv"
    /\ ad[1]["X"] = None
    /\ ad[1]["USDT"] = Some([free |-> MaxBal, locked |-> 1])

\* C21: a command leads to at most one order-placement call; when a step
\* fails (no balance entry, price lookup error, notional below the minimum,
\* placement rejected) the command ends without another placement, the
\* balance mirror, the positions and the command queue are as they were, and
\* the order thread is back at receiving the next command.
C21_OnePlacementPerCommand ==
    [][/\ Len(log'[1].placed) <= 1
       /\ (ot[1].pc \in {"balance", "price", "place"} /\ ot'[1].pc # "place"
             /\ ot'[1] # ot[1])
          => /\ ot'[1].pc \in {"price", "recv"}
             /\ ad' = ad /\ positions' = positions /\ chan' = chan
             /\ (ot[1].pc = "balance" => stop_percent' = stop_percent)
             /\ (ot'[1].pc = "recv"
                   => /\ ot'[1] = OtIdle
                      /\ Len(log'[1].placed) = IF ot[1].pc = "place" THEN 1 ELSE 0)]_vars
C21_Witness ==
    /\ ot[1].pc = "recv"
    /\ Len(log[1].placed) = 1
    /\ ~log[1].placed[1].ok
    /\ chan[1] # <<>>

\* C22: trading_decision returns None whenever the decision, after the
\* take-profit override, equals the type of the position held for the symbol;
\* no Long command is enqueued for a candle at which get_position reports Long.
C22_NoReentry ==
    \A m \in Managers :
        IsSome(log[m].decision) =>
            LET d == Unwrap(log[m].decision)
                cur_type == IF IsSome(d.cur_position)
                            THEN Unwrap(d.cur_position)[1] ELSE "None"
                overridden == IF d.take_profit_override /\ cur_type = "Long"
                              THEN "Short" ELSE d.sig
            IN /\ (get_bvlt_type(m) = None /\ overridden = cur_type)
                  => (d.returned = "None" /\ ~d.enqueued)
               /\ cur_type = "Long" => ~(d.enqueued /\ d.returned = "Long")
C22_Witness ==
    /\ IsSome(log[1].decision)
    /\ Unwrap(log[1].decision).sig = "Long"
    /\ IsSome(Unwrap(log[1].decision).cur_position)
    /\ Unwrap(Unwrap(log[1].decision).cur_position)[1] = "Long"
    /\ ~Unwrap(log[1].decision).take_profit_override
    /\ Unwrap(log[1].decision).returned = "None"
    /\ chan[1] = <<>>

\* C23: cross rule.  With both averages warmed up, the signal of the last
\* closed candle is Long exactly when fast_latest > slow_latest and
\* fast_previous < slow_latest, Short exactly when fast_latest < slow_latest
\* and fast_previous > slow_latest, and None otherwise, the three values being
\* floored to the price decimals (hundredths) before they are compared.
C23_CrossRule ==
    \A m \in pairs :
        (/\ IsSome(log[m].decision)
         /\ IsSome(mt[m].fast_ma_data.latest)
         /\ IsSome(mt[m].slow_ma_data.latest))
        => LET has_prev == IsSome(mt[m].fast_ma_data.penultimate)
               fl == Unwrap(mt[m].fast_ma_data.latest)[1]
                        \div Unwrap(mt[m].fast_ma_data.latest)[2]
               sl == Unwrap(mt[m].slow_ma_data.latest)[1]
                        \div Unwrap(mt[m].slow_ma_data.latest)[2]
               fp == IF has_prev
                     THEN Unwrap(mt[m].fast_ma_data.penultimate)[1]
                             \div Unwrap(mt[m].fast_ma_data.penultimate)[2]
                     ELSE sl
           IN /\ log[m].signal = "Long" <=> (has_prev /\ fl > sl /\ fp < sl)
              /\ log[m].signal = "Short" <=> (has_prev /\ fl < sl /\ fp > sl)
              /\ log[m].signal \in {"Long", "Short", "None"}
C23_Witness ==
    /\ log[1].signal = "Short"
    /\ IsSome(log[1].decision)
    /\ mt[1].fast_ma_data.num_candles < mt[1].slow_ma_data.num_candles
    /\ IsSome(mt[1].fast_ma_data.penultimate)
    /\ QFloor(Unwrap(mt[1].fast_ma_data.penultimate))
          > QFloor(Unwrap(mt[1].slow_ma_data.latest))

\* C24: MACD rule.  The signal of a closed candle is Long only on an upward
\* cross (macd_latest > signal and macd_previous < signal) and, when a trend
\* average is configured, only if it has two values with latest >= previous
\* (an upward cross without that gives None); it is Short on the downward
\* cross; and macd_previous is the macd value of the preceding closed candle.
C24_MacdRule ==
    \A m \in pairs :
        LET mc == mt[m].macd
            trend == mt[m].macd_trend_ma
            ready == /\ IsSome(mc.macd_latest) /\ IsSome(mc.signal.latest)
                     /\ IsSome(mc.macd_previous)
            up == /\ ready
                  /\ Unwrap(mc.macd_latest) > Unwrap(mc.signal.latest)
                  /\ Unwrap(mc.macd_previous) < Unwrap(mc.signal.latest)
            down == /\ ready
                    /\ Unwrap(mc.macd_latest) < Unwrap(mc.signal.latest)
                    /\ Unwrap(mc.macd_previous) > Unwrap(mc.signal.latest)
            rising == /\ IsSome(trend.latest) /\ IsSome(trend.penultimate)
                      /\ Unwrap(trend.latest) >= Unwrap(trend.penultimate)
        IN /\ mc.macd_previous = log[m].macd_before
           /\ IsSome(log[m].decision) =>
                /\ log[m].signal = "Long" => up /\ (trend.num_candles > 0 => rising)
                /\ (up /\ trend.num_candles > 0 /\ ~rising) => log[m].signal = "None"
                /\ down => log[m].signal = "Short"
C24_Witness ==
    /\ IsSome(log[1].decision)
    /\ log[1].signal = "None"
    /\ mt[1].macd_trend_ma.num_candles > 0
    /\ IsSome(mt[1].macd.signal.latest)
    /\ IsSome(mt[1].macd.macd_previous)
    /\ Unwrap(mt[1].macd.macd_latest) > Unwrap(mt[1].macd.signal.latest)
    /\ Unwrap(mt[1].macd.macd_previous) < Unwrap(mt[1].macd.signal.latest)

\* C25: TrendReversal rule.  For a tracker on the TrendReversal signal, once
\* the averages of the closes fed have their values, a closed candle at which
\* the previous value of the fast average is a local minimum (previous <
\* previous-previous) and the latest value of the slow average exceeds it
\* gives Long, and the symmetric local maximum gives Short.
C25_TrendReversal ==
    \A m \in pairs :
        (/\ mt[m].trade_signal = "MaTrendReversal"
         /\ IsSome(log[m].decision)
         /\ IsSome(log[m].slow_of_closes.latest)
         /\ IsSome(mt[m].fast_ma_data.penultimate)
         /\ IsSome(mt[m].fast_ma_data.penultimate_penultimate))
        => LET c == Unwrap(log[m].slow_of_closes.latest)
               prev == Unwrap(mt[m].fast_ma_data.penultimate)
               pp == Unwrap(mt[m].fast_ma_data.penultimate_penultimate)
           IN /\ (QLess(prev, pp) /\ QLess(prev, c)) => log[m].signal = "Long"
              /\ (QLess(pp, prev) /\ QLess(c, prev)) => log[m].signal = "Short"

\* C26: only closed candles advance the indicators.  A kline of the stream
\* whose closed flag is false, and a historical stick whose close time is
\* after the server time, leave the tracker (averages, colour history) as it
\* was and enqueue no command.
C26_OnlyClosedCandles ==
    [][/\ \A k \in CdKlines :
             (~k.x /\ kline_message(1, k)) => (mt' = mt /\ chan' = chan)
       /\ \A stick \in CdSticks :
             (5 < stick.close_time /\ history_candle(1, 5, stick))
                => (mt' = mt /\ chan' = chan)]_vars
C26_Witness ==
    /\ log[1].unclosed = {"history", "stream"}
    /\ IsSome(mt[1].slow_ma_data.latest)
    /\ log[1].signal = "Long"

\* C27: the reconnect of the candle stream terminates.  After a Close at most
\* 5 connection attempts are made, every attempt before the last one failed
\* (the first success ends the reconnect and the thread receives again), and
\* after 5 failures the thread has left its receive loop for good.
C27_KlineReconnect ==
    LET tries == log[1].kline_tries
        failed(n) == \A i \in 1..n : ~tries[i]
    IN /\ Len(tries) <= 5
       /\ failed(Len(tries) - 1)
       /\ mt[1].conn_pc = "reconnect" => failed(Len(tries))
       /\ (tries # <<>> /\ tries[Len(tries)]) => mt[1].conn_pc \in {"recv", "reconnect"}
       /\ (tries # <<>> /\ mt[1].conn_pc = "recv") => tries[Len(tries)]
       /\ (Len(tries) = 5 /\ failed(5)) <=> mt[1].conn_pc = "exited"
C27_Witness ==
    /\ mt[1].conn_pc = "exited"
    /\ Len(log[1].kline_tries) = 5
    /\ log[1].fed > 2

\* C28: position removal is per reported symbol.  A SELL FILLED or CANCELED
\* execution report for a symbol removes the Position entry of that symbol
\* and leaves the entries of every other symbol as they were.
C28_RemovalPerSymbol ==
    [][\A r \in CnReports :
          (/\ event_thread_executionReport(1, r)
           /\ (r.X = "CANCELED" \/ (r.X = "FILLED" /\ r.S = "SELL")))
          => /\ positions'[1][r.s] = None
             /\ \A sy \in Symbols \ {r.s} : positions'[1][sy] = positions[1][sy]]_vars

\* C29: a failed conversion of the commission does not block.  When the price
\* lookup for a commission paid in a third asset fails, the fill adds 0 to
\* the per-trade commission total and the report is handled like any other:
\* a partial fill advances the fill counter, a BUY FILLED report inserts the
\* Long position with the reported quantity, a SELL FILLED report removes
\* the position, and the event thread goes on receiving (it stops only where
\* the assertion on an already present position fails, whatever the
\* commission).
C29_FailedLookupNonBlocking ==
    [][\A r \in {c \in CfReports : c.N = "BNB" /\ c.px = None} :
          event_thread_executionReport(1, r)
          => /\ FillCommission(r) = 0
             /\ log'[1].last = Some(r)
             /\ r.X = "PARTIALLY_FILLED"
                   => /\ et'[1].trade_commission_usdt
                            = Some(UnwrapOr(et[1].trade_commission_usdt, 0))
                      /\ et'[1].fills = et[1].fills + 1
                      /\ et'[1].pc = "recv"
             /\ (r.X = "FILLED" /\ r.S = "BUY")
                   => /\ et'[1].trade_commission_usdt
                            = Some(UnwrapOr(et[1].trade_commission_usdt, 0))
                      /\ et'[1].fills = 0
                      /\ positions[1][r.s] = None
                            => /\ et'[1].pc = "recv"
                               /\ IsSome(positions'[1][r.s])
                               /\ Unwrap(positions'[1][r.s]).qty = r.z
             /\ (r.X = "FILLED" /\ r.S = "SELL")
                   => /\ et'[1].fills = 0
                      /\ et'[1].pc = "recv"
                      /\ \A sy \in Symbols :
                            sy = et[1].buy_symbol => positions'[1][sy] = None]_vars

\* The BUY order 5 has been reported FILLED with a commission that could not
\* be converted, after a fill with a commission of 0.10 USDT: the per-trade
\* total is still 0.10, the position is held and the thread receives.
C29_Witness ==
    /\ log[1].last = Some(ExecutionReportN(5, "XUSDT", "BUY", "LIMIT", "FILLED",
                                           100, 10000, 1, "BNB", None))
    /\ et[1].trade_commission_usdt = Some(10)
    /\ IsSome(positions[1]["XUSDT"])
    /\ et[1].pc = "recv"

\* C30: quantity of the stop order armed after a BUY fill.  Every stop order
\* sent after a BUY FILLED report, and every stop order of
\* order::place_stop_loss, is for the filled quantity minus the commission
\* paid in the base asset, floor-rounded to the quantity decimals, and so for
\* no more than the base-asset amount received.
C30_StopQuantity ==
    \A m \in pairs :
        /\ \A i \in 1..Len(log[m].stops) :
              LET s == log[m].stops[i]
                  received == Unwrap(et[m].total_buy_quantity) - s.base_commission
              IN /\ s.order.quantity = Floor(received, get_qty_dps(m), 1)
                 /\ s.order.quantity <= received
        /\ IsSome(log[m].stop_loss) =>
              LET c == Unwrap(log[m].stop_loss)
                  received == IF c.fill.commissionAsset = sell_currency(m)
                              THEN c.fill.qty - c.fill.commission ELSE c.fill.qty
              IN /\ c.orders[1].quantity = Floor(received, get_qty_dps(m), 1)
                 /\ c.orders[1].quantity <= received

\* The requests of a run that are the entry order of the Long branch, and
\* the positions of the requests of close_short_position.
IsLongEntry(c) ==
    c.call = "send_margin_order" /\ c.side = "BUY" /\ "borrow" \in DOMAIN c
LongEntries(calls) == {i \in 1..Len(calls) : IsLongEntry(calls[i])}
CloseShorts(calls) ==
    {i \in 1..Len(calls) :
        /\ calls[i].call = "send_margin_order" /\ calls[i].side = "BUY"
        /\ "borrow" \notin DOMAIN calls[i]}
Repays(calls) == {i \in 1..Len(calls) : calls[i].call = "margin_repay"}

\* C31: margin Long ordering.  A Long run of margin::trade first requests the
\* cancellation of the open orders; it sends the close-short order (a MARKET
\* BUY of ceil(owed + owed/1000)) exactly when price * quantity reaches
\* min_notional, and the repay of `owed` right after it when the order was
\* accepted; the long entry comes after both; when the close-short order or
\* the repay fails the run ends with an error and has sent no long entry.
C31_MarginLongOrdering ==
    IsSome(log[1].margin) /\ Unwrap(log[1].margin).position = "Long" =>
        LET r == Unwrap(log[1].margin)
            x == r.x
            c == r.ran.calls
            reached == IsSome(x.price) /\ IsSome(x.ad1)
            owed == Unwrap(x.ad1).interest + Unwrap(x.ad1).borrowed
            qty == ((owed * 1001 + 9999) \div 10000) * 10
            closes == reached /\ Unwrap(x.price) * qty >= 10000
        IN /\ c[1] = CancelCall("XUSDT")
           /\ closes => /\ CloseShorts(c) = {4}
                        /\ c[4].type = "MARKET" /\ c[4].quantity = qty
                        /\ x.close.ok => Repays(c) = {5} /\ c[5].amount = owed
                        /\ ~x.close.ok => Repays(c) = {}
                        /\ (~x.close.ok \/ x.repay # 0)
                              => r.ran.end = "error" /\ LongEntries(c) = {}
           /\ ~closes => CloseShorts(c) = {} /\ Repays(c) = {}
           /\ \A i \in LongEntries(c) :
                 \A j \in CloseShorts(c) \cup Repays(c) \cup {1} : j < i
           /\ Cardinality(LongEntries(c)) <= 1

\* A Long run whose close-short order was filled and whose repay failed: it
\* ended with an error after the repay request.
C31_Witness ==
    /\ IsSome(log[1].margin)
    /\ Unwrap(log[1].margin).position = "Long"
    /\ Unwrap(log[1].margin).x.close.ok
    /\ Unwrap(log[1].margin).x.repay # 0
    /\ Len(Unwrap(log[1].margin).ran.calls) = 5
    /\ Unwrap(log[1].margin).ran.calls[5].call = "margin_repay"

ShortSells(calls) == {i \in 1..Len(calls) : calls[i].call = "send_short_order"}

\* C32: margin Short sequence.  In a Short run where a base-asset balance
\* worth at least min_notional is held and its sale succeeded (the order was
\* filled, and the debt, if any, repaid), margin::trade goes on to the
\* borrow-and-sell step: it reads the account again and, when the notional of
\* floor(net quote / index price * leverage) reaches min_notional, sends one
\* short sell of that quantity.
C32_MarginShortSequence ==
    IsSome(log[1].margin) /\ Unwrap(log[1].margin).position = "Short" =>
        LET r == Unwrap(log[1].margin)
            x == r.x
            c == r.ran.calls
            held == /\ IsSome(x.price) /\ IsSome(x.ad1)
                    /\ Unwrap(x.price) * ((Unwrap(x.ad1).free \div 10) * 10) >= 10000
            owes == /\ IsSome(x.leverage)
                    /\ Unwrap(x.ad1).interest + Unwrap(x.ad1).borrowed > 0
            sold == /\ x.close.ok /\ x.close.status = "FILLED"
                    /\ owes => x.repay = 0
            qty == (((Unwrap(x.ad2).net_quote * UnwrapOr(x.leverage, 1))
                        \div Unwrap(x.ad2).index_price)) * 10
        IN (held /\ sold /\ IsSome(x.ad2) /\ Unwrap(x.price) * qty >= 10000)
           => /\ Cardinality(ShortSells(c)) = 1
              /\ \A i \in ShortSells(c) : c[i].quantity = qty

\* C33: the candle colour compares with the closed candle processed just
\* before.  When a streamed closed candle is processed after another one,
\* with confirmation candles configured, the colour it leaves at the end of
\* the confirmation history is GREEN if and only if its close is at least
\* the close of that previous candle.
C33_ColourOfPrecedingCandle ==
    [][\A m \in pairs : \A sig \in {"None", "Long", "Short"} : \A c \in MdCloses :
          (/\ process_close_data(m, sig, c)
           /\ IsSome(log[m].decision)
           /\ IsSome(mt[m].confirmation_candles)
           /\ get_bvlt_type(m) = None)
          => LET h == mt'[m].candle_color_history IN
             /\ h # <<>>
             /\ h[Len(h)] = "GREEN"
                   <=> c >= Unwrap(log[m].decision).closing_price]_vars

\* C34: the handshake flag is Idle outside the wait.  Whenever the order
\* thread is blocked in rx_channel.recv() the bool of order_completed_cv is
\* false.
C34_FlagIdleOutsideWait ==
    \A m \in pairs : ot[m].pc = "recv" => ~waiting[m]

\* C35: no stale acknowledgement.  When the event thread clears the flag
\* while the order thread is in the cancel wait of a command, the CANCELED
\* report it acknowledges was handled after that command asked for the
\* cancellation.
C35_NoStaleAck ==
    [][\A m \in pairs :
          (/\ event_thread_snapshot_done(m)
           /\ waiting[m] /\ ~waiting'[m]
           /\ ot[m].pc \in {"wait", "blocked"})
          => log[m].cancel_own]_vars

C37_OneStopPerBuy ==
    /\ [](\A m \in pairs :
            /\ Len(log[m].stops) <= 1
            /\ log[m].stops # <<>> => log[m].buy_seen)
    /\ [][\A m \in pairs :
            Len(log'[m].stops) > Len(log[m].stops) =>
               /\ log[m].stops = <<>>
               /\ log[m].buy_seen
               /\ et[m].buy_is_filled /\ ~et'[m].buy_is_filled]_vars
\* One stop order was sent for the BUY, a whole snapshot has been applied
\* since and the second balance of a further one is being applied.
C37_Witness ==
    /\ Len(log[1].stops) = 1
    /\ log[1].trail = "buy_snap"
    /\ et[1].pc = "snap" /\ et[1].i = 2

\* C38: AccountManager::new terminates in every execution: whatever the
\* outcome of the start-up steps of the event thread, new eventually returns
\* the AccountManager.
C38_NewTerminates == <>(1 \in pairs)

\* C39: a Short order command is enqueued by process_close_data only when
\* get_position reports a Long position for the symbol; with no position
\* recorded a Short indicator signal produces no command.
C39_ShortOnlyFromLong ==
    \A m \in Managers :
        IsSome(log[m].decision) =>
            LET d == Unwrap(log[m].decision) IN
            /\ (d.enqueued /\ d.returned = "Short") =>
                   /\ IsSome(d.cur_position)
                   /\ Unwrap(d.cur_position)[1] = "Long"
            /\ (d.sig = "Short" /\ d.cur_position = None) => ~d.enqueued

\* C40: no trading during warm-up.  While the historical candles are replayed
\* (the thread has not switched to the stream) no step enqueues an order
\* command, changes the confirmation-colour history or takes a trading
\* decision; a command is enqueued only by a candle of the live stream.
C40_NoTradingInWarmup ==
    [][\A m \in pairs :
          /\ ~mt[m].live =>
                 /\ chan'[m] = chan[m]
                 /\ mt'[m].candle_color_history = mt[m].candle_color_history
                 /\ log'[m].decision = log[m].decision
                 /\ log'[m].pushed = log[m].pushed
          /\ Len(chan'[m]) > Len(chan[m]) =>
                 /\ mt[m].live
                 /\ \E k \in CdKlines : StreamCandleClosed(k) /\ kline_message(m, k)]_vars
\* The warm-up of a tracker with confirmation candles is over, both averages
\* have a value, and nothing was enqueued or recorded.
C40_Witness ==
    /\ ~mt[1].live
    /\ IsSome(mt[1].confirmation_candles)
    /\ log[1].fed = historical_candles_required(mt[1])
    /\ IsSome(mt[1].slow_ma_data.latest) /\ IsSome(mt[1].fast_ma_data.penultimate)
    /\ trading_decision_ma_cross(1, mt[1], Unwrap(mt[1].prev_closing_price)) = "Long"
    /\ chan[1] = <<>> /\ mt[1].candle_color_history = <<>>
    /\ log[1].decision = None

====
